---- MODULE Spec2Model ----
(***************************************************************************)
(* A model of the text-normalization pass (parser.parse) of wgsl-template: *)
(* comment stripping, #include resolution and #define macro expansion.     *)
(*                                                                         *)
(* A string is a sequence of one-character strings, so that the scanners   *)
(* and regular expressions of the source are computed character by         *)
(* character.  A line array is a sequence of such strings.                 *)
(***************************************************************************)
EXTENDS Integers, Sequences, FiniteSets, TLC

(***************************************************************************)
(* Characters and JavaScript string helpers.                               *)
(***************************************************************************)
\* \s of the regular expressions, and the characters trim()/trimEnd() drop.
IsSpace(c) == c \in {" ", "\t"}

Letters ==
  {"a","b","c","d","e","f","g","h","i","j","k","l","m","n","o","p","q","r",
   "s","t","u","v","w","x","y","z","A","B","C","D","E","F","G","H","I","J",
   "K","L","M","N","O","P","Q","R","S","T","U","V","W","X","Y","Z"}

Digits == {"0","1","2","3","4","5","6","7","8","9"}

\* [a-zA-Z_]
IsIdentStart(c) == c \in Letters \cup {"_"}

\* \w, that is [a-zA-Z0-9_]
IsWordChar(c) == c \in Letters \cup Digits \cup {"_"}

\* A stripper that forgets trimEnd.
TrimEndKeepAll(s) == s

\* String.prototype.trimEnd
RECURSIVE TrimEnd(_)
TrimEnd(s) ==
  IF s # <<>> /\ IsSpace(s[Len(s)]) THEN TrimEnd(SubSeq(s, 1, Len(s) - 1)) ELSE s

\* String.prototype.trimStart
RECURSIVE TrimStart(_)
TrimStart(s) ==
  IF s # <<>> /\ IsSpace(s[1]) THEN TrimStart(Tail(s)) ELSE s

\* String.prototype.trim
Trim(s) == TrimStart(TrimEnd(s))

\* String.prototype.startsWith
StartsWith(s, p) == Len(s) >= Len(p) /\ SubSeq(s, 1, Len(p)) = p

\* String.prototype.endsWith
EndsWith(s, p) == Len(s) >= Len(p) /\ SubSeq(s, Len(s) - Len(p) + 1, Len(s)) = p

\* content.split(/\r?\n/) of the loader: the lines of a text.
RECURSIVE SplitLines(_, _)
SplitLines(text, cur) ==
  IF text = <<>> THEN <<cur>>
  ELSE IF text[1] = "\n" THEN <<cur>> \o SplitLines(Tail(text), <<>>)
  ELSE SplitLines(Tail(text), Append(cur, text[1]))

(***************************************************************************)
(* parseComments: the comment stripper.                                    *)
(***************************************************************************)
NoError == [message |-> "", operation |-> "none", filePath |-> <<>>, lineNumber |-> 0]

\* new WgslTemplateParseError(message, operation, {filePath, lineNumber}).
\* message is a short tag for the message text; lineNumber 0 stands for an
\* error that carries no line number.
ParseError(message, operation, filePath, lineNumber) ==
  [message |-> message, operation |-> operation,
   filePath |-> filePath, lineNumber |-> lineNumber]

\* i < line.length - 1 && line[i] === "*" && line[i + 1] === "/", i 1-based here
ClosesBlockComment(line, i) == i < Len(line) /\ line[i] = "*" /\ line[i + 1] = "/"

StartsLineComment(line, i) == i < Len(line) /\ line[i] = "/" /\ line[i + 1] = "/"

StartsBlockComment(line, i) == i < Len(line) /\ line[i] = "/" /\ line[i + 1] = "*"

\* The while loop over one line: i is the 1-based scan position; the result
\* is the processed line and the block-comment state carried to the next line.
RECURSIVE ScanLine(_, _, _, _)
ScanLine(line, i, inMultiLineComment, processedLine) ==
  IF i > Len(line)
  THEN [processedLine |-> processedLine, inMultiLineComment |-> inMultiLineComment]
  ELSE IF inMultiLineComment
  THEN IF ClosesBlockComment(line, i)
       THEN ScanLine(line, i + 2, FALSE, processedLine)
       ELSE ScanLine(line, i + 1, TRUE, processedLine)
  ELSE IF StartsLineComment(line, i)
  THEN [processedLine |-> processedLine, inMultiLineComment |-> FALSE]
  ELSE IF StartsBlockComment(line, i)
  THEN ScanLine(line, i + 2, TRUE, processedLine)
  ELSE ScanLine(line, i + 1, FALSE, Append(processedLine, line[i]))

\* A stripper that forgets the block-comment state at the end of a line.
RECURSIVE ScanLinesNoCarry(_, _, _, _)
ScanLinesNoCarry(raw, n, inMultiLineComment, rawWithoutComments) ==
  IF n > Len(raw)
  THEN [lines |-> rawWithoutComments, inMultiLineComment |-> inMultiLineComment]
  ELSE LET r == ScanLine(raw[n], 1, FALSE, <<>>)
       IN  ScanLinesNoCarry(raw, n + 1, r.inMultiLineComment,
                            Append(rawWithoutComments, TrimEnd(r.processedLine)))

\* The for loop over the lines: rawWithoutComments and the final comment state.
RECURSIVE ScanLines(_, _, _, _)
ScanLines(raw, n, inMultiLineComment, rawWithoutComments) ==
  IF n > Len(raw)
  THEN [lines |-> rawWithoutComments, inMultiLineComment |-> inMultiLineComment]
  ELSE LET r == ScanLine(raw[n], 1, inMultiLineComment, <<>>)
       IN  ScanLines(raw, n + 1, r.inMultiLineComment,
                     Append(rawWithoutComments, TrimEnd(r.processedLine)))

\* A STEP 1 that hands the raw lines on as they are.
parseCommentsKeepAll(filePath, raw) == [ok |-> TRUE, lines |-> raw, error |-> NoError]

\* A stripper that returns whatever it scanned, also inside an open comment.
parseCommentsNoThrow(filePath, raw) ==
  [ok |-> TRUE, lines |-> ScanLines(raw, 1, FALSE, <<>>).lines, error |-> NoError]

\* parseComments(filePath, raw).  ok = FALSE stands for the throw: nothing is
\* returned and error is the WgslTemplateParseError that was thrown.
parseComments(filePath, raw) ==
  LET r == ScanLines(raw, 1, FALSE, <<>>)
  IN  IF r.inMultiLineComment
      THEN [ok |-> FALSE, lines |-> <<>>,
            error |-> ParseError("unterminated comment", "comment-removal", filePath, 0)]
      ELSE [ok |-> TRUE, lines |-> r.lines, error |-> NoError]

(***************************************************************************)
(* parsePreprocessorIncludeDirectives: the #include resolver.              *)
(***************************************************************************)
IncludeWord == <<"#", "i", "n", "c", "l", "u", "d", "e">>

Quote == <<"\"">>

\* A ParsedLine.
ParsedLine(line, filePath, lineNumber) ==
  [line |-> line,
   codeReference |-> [filePath |-> filePath, lineNumber |-> lineNumber]]

\* line.match(/^#include\s+(.+)$/): "#include", white space, one character
\* or more.
IncludeMatches(line) ==
  StartsWith(line, IncludeWord) /\ Len(line) >= 10 /\ IsSpace(line[9])

\* includeMatch[1].trim(): \s+ is greedy, so the group starts after the white
\* space (or is white space only), and trim() leaves the same text either way.
IncludeParam(line) == Trim(SubSeq(line, 10, Len(line)))

\* includeParam.startsWith('"') && includeParam.endsWith('"')
IsQuoted(includeParam) ==
  StartsWith(includeParam, Quote) /\ EndsWith(includeParam, Quote)

\* includeParam.slice(1, -1)
IncludePath(includeParam) == SubSeq(includeParam, 2, Len(includeParam) - 1)

\* A resolver that compares the path with the file being processed only.
IncludesTopOnly(includeStack, includePath) ==
  includeStack[Len(includeStack)] = includePath

\* A test that finds no path on the stack.
NeverIncludes(includeStack, includePath) == FALSE

\* includeStack.includes(includePath)
Includes(includeStack, includePath) ==
  \E k \in 1..Len(includeStack) : includeStack[k] = includePath

\* What the loop body does with one line of currentFile (lineNumber 0-based):
\* an error to throw, a file to push on the include stack, or the line to keep.
IncludeLineOutcome(includeStack, parseState, currentFile, lineNumber, parsedLine) ==
  IF ~IncludeMatches(parsedLine.line)
  THEN [kind |-> "keep"]
  ELSE LET includeParam == IncludeParam(parsedLine.line)
           includePath == IncludePath(includeParam)
       IN  IF ~IsQuoted(includeParam)
           THEN [kind |-> "throw",
                 error |-> ParseError("path not quoted", "syntax-error",
                                     currentFile, lineNumber + 1)]
           ELSE IF Includes(includeStack, includePath)
           THEN [kind |-> "throw",
                 error |-> ParseError("circular include", "include-circular",
                                     currentFile, lineNumber + 1)]
           ELSE IF includePath \notin DOMAIN parseState
           THEN [kind |-> "throw",
                 error |-> ParseError("include not found", "include-not-found",
                                     currentFile, lineNumber + 1)]
           ELSE [kind |-> "push", includePath |-> includePath]

(***************************************************************************)
(* parseMacroDirectives: the #define table of one template.                *)
(***************************************************************************)
DefineWord == <<"#", "d", "e", "f", "i", "n", "e">>

RECURSIVE SkipSpaces(_, _)
SkipSpaces(s, i) == IF i <= Len(s) /\ IsSpace(s[i]) THEN SkipSpaces(s, i + 1) ELSE i

RECURSIVE SkipWordChars(_, _)
SkipWordChars(s, i) ==
  IF i <= Len(s) /\ IsWordChar(s[i]) THEN SkipWordChars(s, i + 1) ELSE i

\* line.trim().startsWith("#define ")
LooksLikeDefine(line) == StartsWith(Trim(line), DefineWord \o <<" ">>)

NoMatch == [matched |-> FALSE, name |-> <<>>, value |-> <<>>]

\* line.match(/^#define\s+([a-zA-Z_][a-zA-Z0-9_]*)\s+(.+)$/): name is group 1
\* and value group 2.  When only white space follows the name, \s+ gives its
\* last character back to (.+).
DefineMatch(line) ==
  IF ~StartsWith(line, DefineWord) THEN NoMatch
  ELSE LET n1 == SkipSpaces(line, Len(DefineWord) + 1)
           n2 == SkipWordChars(line, n1)
           n3 == SkipSpaces(line, n2)
       IN  IF n1 = Len(DefineWord) + 1 \/ n1 > Len(line) THEN NoMatch
           ELSE IF ~IsIdentStart(line[n1]) \/ n3 = n2 THEN NoMatch
           ELSE IF n3 <= Len(line)
           THEN [matched |-> TRUE, name |-> SubSeq(line, n1, n2 - 1),
                 value |-> SubSeq(line, n3, Len(line))]
           ELSE IF n3 - n2 >= 2
           THEN [matched |-> TRUE, name |-> SubSeq(line, n1, n2 - 1),
                 value |-> <<line[Len(line)]>>]
           ELSE NoMatch

\* Whether /\bname\b/ matches s at position p (name is an identifier).
WordAt(s, name, p) ==
  /\ p + Len(name) - 1 <= Len(s)
  /\ SubSeq(s, p, p + Len(name) - 1) = name
  /\ (p = 1 \/ ~IsWordChar(s[p - 1]))
  /\ (p + Len(name) - 1 = Len(s) \/ ~IsWordChar(s[p + Len(name)]))

\* new RegExp(`\\b${name}\\b`).test(s)
ContainsWord(s, name) == \E p \in 1..Len(s) : WordAt(s, name, p)

\* The character U+0060, which a TLA+ string cannot hold.
Backtick == "U+0060"

\* The text String.prototype.replace puts in place of one match when its
\* second argument is the string value: $$ is a dollar sign, $& the matched
\* text, $` and $' the text before and after the match; the regular
\* expression has no groups, so $1.. and $<name> stay as they are.
RECURSIVE Substitution(_, _, _, _)
Substitution(value, matched, before, after) ==
  IF value = <<>> THEN <<>>
  ELSE IF Len(value) >= 2 /\ value[1] = "$" /\ value[2] \in {"$", "&", Backtick, "'"}
  THEN (CASE value[2] = "$" -> <<"$">>
          [] value[2] = "&" -> matched
          [] value[2] = Backtick -> before
          [] value[2] = "'" -> after)
       \o Substitution(SubSeq(value, 3, Len(value)), matched, before, after)
  ELSE <<value[1]>> \o Substitution(Tail(value), matched, before, after)

\* s.replace(new RegExp(`\\b${name}\\b`, "g"), value), from position p on.
RECURSIVE ReplaceWord(_, _, _, _)
ReplaceWord(s, name, value, p) ==
  IF p > Len(s) THEN <<>>
  ELSE IF WordAt(s, name, p)
  THEN Substitution(value, name, SubSeq(s, 1, p - 1),
                    SubSeq(s, p + Len(name), Len(s)))
       \o ReplaceWord(s, name, value, p + Len(name))
  ELSE <<s[p]>> \o ReplaceWord(s, name, value, p + 1)

\* A macro table in which no name is ever found.
HasMacroNever(macros, macroName) == FALSE

\* macros.has(macroName); macros is the Map in insertion order.
HasMacro(macros, macroName) == \E k \in 1..Len(macros) : macros[k].name = macroName

\* The same loop without the look into the values of the existing macros.
RECURSIVE ExpandValueUnchecked(_, _, _, _)
ExpandValueUnchecked(macros, k, macroName, expandedValue) ==
  IF k > Len(macros) THEN [circular |-> FALSE, value |-> expandedValue]
  ELSE ExpandValueUnchecked(macros, k + 1, macroName,
                            ReplaceWord(expandedValue, macros[k].name, macros[k].value, 1))

\* The loop that applies the existing macros, from the k-th on, to the value
\* of the macro being defined; circular when a macro that occurs in the value
\* has the new name in its own value.
RECURSIVE ExpandValue(_, _, _, _)
ExpandValue(macros, k, macroName, expandedValue) ==
  IF k > Len(macros) THEN [circular |-> FALSE, value |-> expandedValue]
  ELSE IF ContainsWord(expandedValue, macros[k].name)
  THEN IF ContainsWord(macros[k].value, macroName)
       THEN [circular |-> TRUE, value |-> expandedValue]
       ELSE ExpandValue(macros, k + 1, macroName,
                        ReplaceWord(expandedValue, macros[k].name, macros[k].value, 1))
  ELSE ExpandValue(macros, k + 1, macroName, expandedValue)

\* The loop that applies the macros, from the k-th on, to an ordinary line.
RECURSIVE SubstituteMacros(_, _, _)
SubstituteMacros(macros, k, line) ==
  IF k > Len(macros) THEN line
  ELSE SubstituteMacros(macros, k + 1,
                        ReplaceWord(line, macros[k].name, macros[k].value, 1))

\* What the loop body does with one line of the stream (lineNumber 0-based):
\* an error to throw, or the line to push and the macro table after it.
MacroLineOutcome(macros, fileName, lineNumber, line) ==
  IF LooksLikeDefine(line)
  THEN LET defineMatch == DefineMatch(line)
           macroName == defineMatch.name
           macroValue == Trim(defineMatch.value)
           expanded == ExpandValue(macros, 1, macroName, macroValue)
       IN  IF ~defineMatch.matched
           THEN [kind |-> "throw",
                 error |-> ParseError("malformed define", "syntax-error",
                                      fileName, lineNumber + 1)]
           ELSE IF macroValue = <<>>
           THEN [kind |-> "throw",
                 error |-> ParseError("empty value", "syntax-error",
                                      fileName, lineNumber + 1)]
           ELSE IF HasMacro(macros, macroName)
           THEN [kind |-> "throw",
                 error |-> ParseError("duplicate macro", "define-expansion",
                                      fileName, lineNumber + 1)]
           ELSE IF ContainsWord(macroValue, macroName)
           THEN [kind |-> "throw",
                 error |-> ParseError("references itself", "define-expansion",
                                      fileName, lineNumber + 1)]
           ELSE IF expanded.circular
           THEN [kind |-> "throw",
                 error |-> ParseError("circular dependency", "define-expansion",
                                      fileName, lineNumber + 1)]
           ELSE [kind |-> "push", line |-> <<>>,
                 macros |-> Append(macros, [name |-> macroName, value |-> expanded.value])]
  ELSE [kind |-> "push", line |-> SubstituteMacros(macros, 1, line), macros |-> macros]

(***************************************************************************)
(* The code patterns of the generator (code-pattern-impl.ts) and the       *)
(* tokenizer matchNextPattern.  A pattern is a record: its type, the word  *)
(* its regular expression is built around, and its replace array.          *)
(***************************************************************************)
\* null / undefined, where a string is expected.
Null == <<>>

Pattern(type, word, replace0, replace1) ==
  [type |-> type, word |-> word, replace0 |-> replace0, replace1 |-> replace1]

\* DEFAULT_PATTERNS
DEFAULT_PATTERNS ==
  <<Pattern("control", <<"(">>, Null, Null),
    Pattern("control", <<")">>, Null, Null),
    Pattern("control", <<",">>, Null, Null),
    Pattern("variable", <<"$", "M", "A", "I", "N">>, <<"M", "A", "I", "N">>, Null)>>

\* lookupPattern(name): the entries of PATTERN_MAP for getElementAt (a
\* function), .rank (a property) and .get (a method); the other entries have
\* the same three shapes.  The result is a sequence of no or one pattern.
lookupPattern(name) ==
  IF name = <<"g", "e", "t", "E", "l", "e", "m", "e", "n", "t", "A", "t">>
  THEN <<Pattern("function", <<"g", "e", "t", "E", "l", "e", "m", "e", "n", "t", "A", "t">>, <<"G", "e", "t", "E", "l", "e", "m", "e", "n", "t", "A", "t">>, Null)>>
  ELSE IF name = <<".", "r", "a", "n", "k">>
  THEN <<Pattern("property", <<"r", "a", "n", "k">>, Null, <<"R", "a", "n", "k", "(", ")">>)>>
  ELSE IF name = <<".", "g", "e", "t">>
  THEN <<Pattern("method", <<"g", "e", "t">>, Null, <<"G", "e", "t">>)>>
  ELSE <<>>

\* /^[a-zA-Z_][a-zA-Z0-9_]*$/.test(name)
IsIdentifier(name) ==
  /\ name # <<>>
  /\ IsIdentStart(name[1])
  /\ \A k \in 1..Len(name) : IsWordChar(name[k])

\* createParamPattern(name), for a name that is an identifier.
createParamPattern(name) == Pattern("param", name, Null, Null)

\* \b at position p of s: between s[p - 1] and s[p], one is a word character
\* and the other is not (or is missing).
WordBoundary(s, p) ==
  (p > 1 /\ p - 1 <= Len(s) /\ IsWordChar(s[p - 1])) # (p <= Len(s) /\ IsWordChar(s[p]))

NoGroups == [len |-> 0, group1 |-> Null, group2 |-> Null]

\* The match of /\b(word)\s*\(/ at position p of s.
FunctionMatchAt(word, s, p) ==
  LET q == SkipSpaces(s, p + Len(word))
  IN  IF /\ WordBoundary(s, p)
         /\ p + Len(word) - 1 <= Len(s)
         /\ SubSeq(s, p, p + Len(word) - 1) = word
         /\ q <= Len(s) /\ s[q] = "("
      THEN [len |-> q - p + 1, group1 |-> word, group2 |-> Null]
      ELSE NoGroups

\* The match of /\b([_a-zA-Z][_a-zA-Z0-9]*)\s*\.\s*(word)/ at position p of
\* s, followed by \s*\( for a method and by \b for a property.
MemberMatchAt(word, call, s, p) ==
  IF ~(p <= Len(s) /\ IsIdentStart(s[p]) /\ WordBoundary(s, p)) THEN NoGroups
  ELSE LET e == SkipWordChars(s, p)
           d == SkipSpaces(s, e)
           w == SkipSpaces(s, d + 1)
           a == w + Len(word)
           q == SkipSpaces(s, a)
       IN  IF /\ d <= Len(s) /\ s[d] = "."
              /\ a - 1 <= Len(s)
              /\ SubSeq(s, w, a - 1) = word
              /\ IF call THEN q <= Len(s) /\ s[q] = "(" ELSE WordBoundary(s, a)
           THEN [len |-> (IF call THEN q + 1 ELSE a) - p,
                 group1 |-> SubSeq(s, p, e - 1), group2 |-> word]
           ELSE NoGroups

\* The match of /(?<![a-zA-Z0-9_])(\$MAIN)\b/ at position p of s.
VariableMatchAt(word, s, p) ==
  IF /\ p + Len(word) - 1 <= Len(s)
     /\ SubSeq(s, p, p + Len(word) - 1) = word
     /\ ~(p > 1 /\ IsWordChar(s[p - 1]))
     /\ WordBoundary(s, p + Len(word))
  THEN [len |-> Len(word), group1 |-> word, group2 |-> Null]
  ELSE NoGroups

\* The match of the regular expression of pattern at position p of s.
PatternMatchAt(pattern, s, p) ==
  CASE pattern.type = "control" ->
         IF s[p] = pattern.word[1]
         THEN [len |-> 1, group1 |-> Null, group2 |-> Null] ELSE NoGroups
    [] pattern.type = "variable" -> VariableMatchAt(pattern.word, s, p)
    [] pattern.type = "param" ->
         IF WordAt(s, pattern.word, p)
         THEN [len |-> Len(pattern.word), group1 |-> Null, group2 |-> Null]
         ELSE NoGroups
    [] pattern.type = "function" -> FunctionMatchAt(pattern.word, s, p)
    [] pattern.type = "method" -> MemberMatchAt(pattern.word, TRUE, s, p)
    [] pattern.type = "property" -> MemberMatchAt(pattern.word, FALSE, s, p)

NoExec == [found |-> FALSE, index |-> 0, length |-> 0, group1 |-> Null, group2 |-> Null]

\* regex.exec(content): the leftmost match, index counted from 0.
RECURSIVE Exec(_, _, _)
Exec(pattern, content, p) ==
  IF p > Len(content) THEN NoExec
  ELSE LET m == PatternMatchAt(pattern, content, p)
       IN  IF m.len > 0
           THEN [found |-> TRUE, index |-> p - 1, length |-> m.len,
                 group1 |-> m.group1, group2 |-> m.group2]
           ELSE Exec(pattern, content, p + 1)

NoNext == [found |-> FALSE, pattern |-> 0, index |-> 0, length |-> 0,
           group1 |-> Null, group2 |-> Null]

\* A tokenizer in which a later pattern wins a tie.
RECURSIVE matchNextPatternLastWins(_, _, _, _)
matchNextPatternLastWins(content, patterns, k, earliestMatch) ==
  IF k > Len(patterns) THEN earliestMatch
  ELSE LET match == Exec(patterns[k], content, 1)
       IN  matchNextPatternLastWins(content, patterns, k + 1,
             IF match.found /\ (~earliestMatch.found \/ match.index <= earliestMatch.index)
             THEN [found |-> TRUE, pattern |-> k, index |-> match.index,
                   length |-> match.length, group1 |-> match.group1,
                   group2 |-> match.group2]
             ELSE earliestMatch)

\* matchNextPattern(content, patterns): the loop over the patterns from the
\* k-th on, earliestMatch being the match kept so far (pattern is the
\* position of the matching pattern in patterns).
RECURSIVE matchNextPattern(_, _, _, _)
matchNextPattern(content, patterns, k, earliestMatch) ==
  IF k > Len(patterns) THEN earliestMatch
  ELSE LET match == Exec(patterns[k], content, 1)
       IN  matchNextPattern(content, patterns, k + 1,
             IF match.found /\ (~earliestMatch.found \/ match.index < earliestMatch.index)
             THEN [found |-> TRUE, pattern |-> k, index |-> match.index,
                   length |-> match.length, group1 |-> match.group1,
                   group2 |-> match.group2]
             ELSE earliestMatch)

(***************************************************************************)
(* Code segments and the code generator handed to generate (the dynamic    *)
(* code generator).                                                        *)
(***************************************************************************)
Segment(type, content) == [type |-> type, content |-> content]

\* mergeAdjacentSegments(segments), from the k-th segment on, acc being the
\* accumulator of the reduce.
RECURSIVE mergeAdjacentSegments(_, _, _)
mergeAdjacentSegments(segments, k, acc) ==
  IF k > Len(segments) THEN acc
  ELSE LET segment == segments[k]
       IN  mergeAdjacentSegments(segments, k + 1,
             IF /\ Len(acc) > 0
                /\ acc[Len(acc)].type = segment.type
                /\ segment.type \in {"raw", "code"}
             THEN [acc EXCEPT ![Len(acc)].content = @ \o segment.content]
             ELSE Append(acc, segment))

\* JSON.stringify(s) for a string s.
RECURSIVE JsonEscape(_)
JsonEscape(s) ==
  IF s = <<>> THEN <<>>
  ELSE (IF s[1] = "\"" THEN <<"\\", "\"">>
        ELSE IF s[1] = "\\" THEN <<"\\", "\\">>
        ELSE IF s[1] = "\n" THEN <<"\\", "n">>
        ELSE <<s[1]>>) \o JsonEscape(Tail(s))

JsonString(s) == Quote \o JsonEscape(s) \o Quote

RECURSIVE Join(_, _)
Join(strings, separator) ==
  IF strings = <<>> THEN <<>>
  ELSE IF Len(strings) = 1 THEN strings[1]
  ELSE strings[1] \o separator \o Join(Tail(strings), separator)

\* renderArg: render of a segment inside a template literal.
RenderSegment(segment) ==
  IF segment.type = "code" THEN segment.content
  ELSE <<"$", "{">> \o segment.content \o <<"}">>

RenderContent(segment) == segment.content

Map(F(_), seq) == [k \in 1..Len(seq) |-> F(seq[k])]

\* renderArg(arg)
renderArg(arg) ==
  IF Len(arg.code) = 0 THEN <<>>
  ELSE IF Len(arg.code) = 1
  THEN IF arg.type = "string" /\ arg.code[1].type = "expression"
       THEN <<Backtick, "$", "{">> \o arg.code[1].content \o <<"}", Backtick>>
       ELSE IF arg.type # "expression" /\ arg.code[1].type = "code"
       THEN JsonString(arg.code[1].content)
       ELSE arg.code[1].content
  ELSE IF arg.type # "expression"
  THEN <<Backtick>> \o Join(Map(RenderSegment, arg.code), <<>>) \o <<Backtick>>
  ELSE Join(Map(RenderContent, arg.code), <<>>)

\* codeGenerator.param(name)
CodeParam(name) == <<"p", "a", "r", "a", "m", "[">> \o JsonString(name) \o <<"]">>

\* codeGenerator.variable(name)
CodeVariable(name) == <<"v", "a", "r", "i", "a", "b", "l", "e", "[">> \o JsonString(name) \o <<"]">>

\* codeGenerator.property(obj, propertyName)
CodeProperty(obj, propertyName) == CodeVariable(obj) \o <<".">> \o propertyName

\* codeGenerator.function(name, args)
CodeFunction(name, args) ==
  name \o <<"(">> \o Join(Map(renderArg, args), <<",", " ">>) \o <<")">>

\* codeGenerator.method(obj, methodName, args)
CodeMethod(obj, methodName, args) ==
  CodeVariable(obj) \o <<".">> \o methodName \o <<"(">>
  \o Join(Map(renderArg, args), <<",", " ">>) \o <<")">>

\* The lines of a code segment as emit cuts them, each with its line break.
RECURSIVE CodeLines(_, _)
CodeLines(text, cur) ==
  IF text = <<>> THEN (IF cur = <<>> THEN <<>> ELSE <<cur>>)
  ELSE IF text[1] = "\n" THEN <<Append(cur, "\n")>> \o CodeLines(Tail(text), <<>>)
  ELSE CodeLines(Tail(text), Append(cur, text[1]))

EmitCall(argument) == <<"e", "m", "i", "t", "(">> \o argument \o <<")", ";", "\n">>

EmitLine(line) == EmitCall(JsonString(line))

EmitSegment(segment) ==
  IF segment.type = "raw" THEN segment.content
  ELSE IF segment.type = "code"
  THEN Join(Map(EmitLine, CodeLines(segment.content, <<>>)), <<>>)
  ELSE EmitCall(segment.content)

\* codeGenerator.emit(code)
CodeEmit(code) == Join(Map(EmitSegment, code), <<>>)

(***************************************************************************)
(* generateImpl.  A context c holds what generateImpl works on: c.s is the *)
(* generatorState object, c.l the local variables of the call, c.error the *)
(* error thrown, NoError while none is.                                    *)
(***************************************************************************)
\* new WgslTemplateGenerateError(message, operation, {filePath, lineNumber}).
\* message is the message text without its positions; filePath <<>> and
\* lineNumber 0 stand for an error that carries none.
GenerateError(message, operation, filePath, lineNumber) ==
  [message |-> message, operation |-> operation,
   filePath |-> filePath, lineNumber |-> lineNumber]

\* new Error(message), thrown by createParamPattern.
PlainError(message) ==
  [message |-> message, operation |-> "Error", filePath |-> <<>>, lineNumber |-> 0]

\* throw e
Fail(c, e) == IF c.error # NoError THEN c ELSE [c EXCEPT !.error = e]

\* throw new WgslTemplateGenerateError(message, operation, {filePath:
\* generatorState.filePath, lineNumber: currentLine + 1})
FailAtLine(c, message, operation) ==
  Fail(c, GenerateError(message, operation, c.s.filePath, c.l.currentLine + 1))

\* An output that keeps the type of a segment inside a preprocessor
\* expression.
outputKeepType(c, type, content) ==
  IF c.error # NoError THEN c
  ELSE IF c.l.expressionOpen
  THEN IF type = "raw"
       THEN FailAtLine(c, "Raw content inside preprocessor expression",
                       "code-generation-failed")
       ELSE IF type = "code" /\ content = <<"\n">> THEN c
       ELSE [c EXCEPT !.l.currentPreProcessorExpression =
                          Append(@, Segment(type, content))]
  ELSE IF Len(c.s.currentFunctionCall) > 0
  THEN IF type = "raw"
       THEN FailAtLine(c, "Raw content inside function call",
                       "code-generation-failed")
       ELSE [c EXCEPT !.s.currentFunctionCall[Len(c.s.currentFunctionCall)].currentParam =
                          Append(@, Segment(type, content))]
  ELSE [c EXCEPT !.s.result = Append(@, Segment(type, content))]

\* output(type, content)
output(c, type, content) ==
  IF c.error # NoError THEN c
  ELSE IF c.l.expressionOpen
  THEN IF type = "raw"
       THEN FailAtLine(c, "Raw content inside preprocessor expression",
                       "code-generation-failed")
       ELSE IF type = "code" /\ content = <<"\n">> THEN c
       ELSE [c EXCEPT !.l.currentPreProcessorExpression =
                          Append(@, Segment("raw", content))]
  ELSE IF Len(c.s.currentFunctionCall) > 0
  THEN IF type = "raw"
       THEN FailAtLine(c, "Raw content inside function call",
                       "code-generation-failed")
       ELSE [c EXCEPT !.s.currentFunctionCall[Len(c.s.currentFunctionCall)].currentParam =
                          Append(@, Segment(type, content))]
  ELSE [c EXCEPT !.s.result = Append(@, Segment(type, content))]

\* The clean-up of one parameter when its call closes: its last and its
\* first segment.
TrimParamEnd(param) ==
  IF Len(param) > 0 /\ param[Len(param)].type = "code"
  THEN IF Trim(param[Len(param)].content) = <<>>
       THEN SubSeq(param, 1, Len(param) - 1)
       ELSE [param EXCEPT ![Len(param)].content = TrimEnd(@)]
  ELSE param

TrimParamStart(param) ==
  IF Len(param) > 0 /\ param[1].type = "code"
  THEN IF Trim(param[1].content) = <<>>
       THEN Tail(param)
       ELSE [param EXCEPT ![1].content = TrimStart(@)]
  ELSE param

CleanParam(param) == TrimParamStart(TrimParamEnd(param))

\* The frame pushed on currentFunctionCall; no pattern sets argTypes.
CallFrame(name, parenthesesState, caller) ==
  [name |-> name, parenthesesState |-> parenthesesState, params |-> <<>>,
   currentParam |-> <<>>, caller |-> caller]

\* A comma handling that closes the argument of the innermost call at any
\* depth.
CommaAnyDepth(c) ==
  LET calls == c.s.currentFunctionCall
      call == calls[Len(calls)]
  IN  IF Len(calls) > 0
      THEN IF Len(call.currentParam) = 0
           THEN FailAtLine(c, "Empty parameter", "parameter-missing")
           ELSE [c EXCEPT !.s.currentFunctionCall[Len(calls)] =
                   [@ EXCEPT !.params = Append(@, call.currentParam),
                             !.currentParam = <<>>]]
      ELSE output(c, "code", <<",">>)

\* matched === ","
Comma(c) ==
  LET calls == c.s.currentFunctionCall
      call == calls[Len(calls)]
  IN  IF Len(calls) > 0 /\ call.parenthesesState + 1 = c.l.currentParenthesesState
      THEN IF Len(call.currentParam) = 0
           THEN FailAtLine(c, "Empty parameter", "parameter-missing")
           ELSE [c EXCEPT !.s.currentFunctionCall[Len(calls)] =
                   [@ EXCEPT !.params = Append(@, call.currentParam),
                             !.currentParam = <<>>]]
      ELSE output(c, "code", <<",">>)

\* matched === ")"
CloseParenthesis(c) ==
  LET depth == c.l.currentParenthesesState - 1
      calls == c.s.currentFunctionCall
      call == calls[Len(calls)]
      c1 == [c EXCEPT !.l.currentParenthesesState = depth]
  IN  IF depth < 0
      THEN FailAtLine(c1, "Unmatched closing parenthesis", "code-generation-failed")
      ELSE IF Len(calls) > 0 /\ call.parenthesesState = depth
      THEN LET all == IF Len(call.currentParam) > 0
                      THEN Append(call.params, call.currentParam)
                      ELSE call.params
               params == [k \in 1..Len(all) |->
                            CleanParam(mergeAdjacentSegments(all[k], 1, <<>>))]
               codeSegmentArgs == [k \in 1..Len(all) |->
                                     [type |-> "auto", code |-> params[k]]]
               c2 == [c1 EXCEPT !.s.currentFunctionCall =
                                    SubSeq(calls, 1, Len(calls) - 1)]
           IN  output(c2, "expression",
                 IF call.caller # Null
                 THEN CodeMethod(call.caller, call.name, codeSegmentArgs)
                 ELSE CodeFunction(call.name, codeSegmentArgs))
      ELSE output(c1, "code", <<")">>)

\* matched === "}"
CloseBracket(c) ==
  LET depth == c.l.currentBracketState - 1
      c1 == [c EXCEPT !.l.currentBracketState = depth]
  IN  IF depth < 0
      THEN FailAtLine(c1, "Unmatched closing bracket", "code-generation-failed")
      ELSE IF depth = 0 /\ c.s.mainFunction = "started"
      THEN LET c2 == output(c1, "raw", <<"M", "a", "i", "n", "F", "u", "n", "c", "t", "i", "o", "n", "E", "n", "d", "(", ")", ";", "\n">>)
           IN  IF c2.error # NoError THEN c2
               ELSE [c2 EXCEPT !.s.mainFunction = "ended"]
      ELSE output(c1, "code", <<"}">>)

\* matched.includes("$MAIN")
ContainsMain(matched) ==
  \E p \in 1..Len(matched) : StartsWith(SubSeq(matched, p, Len(matched)), <<"$", "M", "A", "I", "N">>)

\* The control token $MAIN.
MainStart(c) ==
  IF c.s.mainFunction # "not-started"
  THEN FailAtLine(c, "Multiple main function start ($MAIN) detected",
                  "code-generation-failed")
  ELSE IF Len(c.s.currentFunctionCall) > 0
  THEN FailAtLine(c, "$MAIN directive inside function call", "code-generation-failed")
  ELSE IF c.l.currentParenthesesState # 0
  THEN FailAtLine(c, "$MAIN directive inside parentheses", "code-generation-failed")
  ELSE IF c.l.currentBracketState # 0
  THEN FailAtLine(c, "$MAIN directive inside brackets", "code-generation-failed")
  ELSE IF c.l.expressionOpen
  THEN FailAtLine(c, "$MAIN directive inside preprocessor expression",
                  "code-generation-failed")
  ELSE LET c1 == output([c EXCEPT !.s.mainFunction = "started"], "raw", <<"M", "a", "i", "n", "F", "u", "n", "c", "t", "i", "o", "n", "S", "t", "a", "r", "t", "(", ")", ";", "\n">>)
       IN  IF c1.error # NoError THEN c1
           ELSE [c1 EXCEPT !.l.currentBracketState = 1]

\* case "control"
ControlToken(c, matched) ==
  IF matched = <<"(">>
  THEN output([c EXCEPT !.l.currentParenthesesState = @ + 1], "code", <<"(">>)
  ELSE IF matched = <<",">> THEN Comma(c)
  ELSE IF matched = <<")">> THEN CloseParenthesis(c)
  ELSE IF matched = <<"{">>
  THEN output([c EXCEPT !.l.currentBracketState = @ + 1], "code", <<"{">>)
  ELSE IF matched = <<"}">> THEN CloseBracket(c)
  ELSE IF ContainsMain(matched) THEN MainStart(c)
  ELSE c

\* map.set(key, value)
MapSet(map, key, value) == (key :> value) @@ map

\* A param token that records nothing.
ParamTokenUnrecorded(c, matched) == output(c, "expression", CodeParam(matched))

\* case "param"
ParamToken(c, matched) ==
  output([c EXCEPT !.s.usedParams = MapSet(@, matched, "int")],
         "expression", CodeParam(matched))

\* case "variable"
VariableToken(c, pattern, matched) ==
  LET variableName == IF pattern.replace0 # Null THEN pattern.replace0 ELSE matched
  IN  output([c EXCEPT !.s.usedVariables = MapSet(@, variableName, "shader-variable")],
             "expression", CodeVariable(variableName))

\* A call that records the depth of its arguments instead of the depth at
\* which it opens.
CallTokenAfterIncrement(c, pattern, next) ==
  LET caller == IF pattern.type # "method" THEN Null
                ELSE IF pattern.replace0 # Null THEN pattern.replace0
                ELSE next.group1
      name == IF caller # Null
              THEN (IF pattern.replace1 # Null THEN pattern.replace1 ELSE next.group2)
              ELSE (IF pattern.replace0 # Null THEN pattern.replace0 ELSE next.group1)
  IN  [c EXCEPT !.s.currentFunctionCall =
                    Append(@, CallFrame(name, c.l.currentParenthesesState + 1, caller)),
                !.l.currentParenthesesState = @ + 1]

\* case "method" (which falls through to "function") and case "function"
CallToken(c, pattern, next) ==
  LET caller == IF pattern.type # "method" THEN Null
                ELSE IF pattern.replace0 # Null THEN pattern.replace0
                ELSE next.group1
      name == IF caller # Null
              THEN (IF pattern.replace1 # Null THEN pattern.replace1 ELSE next.group2)
              ELSE (IF pattern.replace0 # Null THEN pattern.replace0 ELSE next.group1)
      c1 == IF pattern.type = "method"
            THEN [c EXCEPT !.s.usedVariables = MapSet(@, caller, "shader-variable")]
            ELSE c
  IN  [c1 EXCEPT !.s.currentFunctionCall =
                     Append(@, CallFrame(name, c.l.currentParenthesesState, caller)),
                 !.l.currentParenthesesState = @ + 1]

\* case "property"
PropertyToken(c, pattern, next) ==
  LET caller == IF pattern.replace0 # Null THEN pattern.replace0 ELSE next.group1
      name == IF pattern.replace1 # Null THEN pattern.replace1 ELSE next.group2
  IN  output([c EXCEPT !.s.usedVariables = MapSet(@, caller, "shader-variable")],
             "expression", CodeProperty(caller, name))

\* line.slice(currentColumn)
RestLine(c, line) == SubSeq(line, c.l.currentColumn + 1, Len(line))

\* matchNextPattern(restLine, patterns) in processCurrentLine
NextMatch(c, line) == matchNextPattern(RestLine(c, line), c.s.patterns, 1, NoNext)

\* The switch on next.pattern.type.
ProcessPattern(c, pattern, matched, next) ==
  CASE pattern.type = "control" -> ControlToken(c, matched)
    [] pattern.type = "param" -> ParamToken(c, matched)
    [] pattern.type = "variable" -> VariableToken(c, pattern, matched)
    [] pattern.type \in {"method", "function"} -> CallToken(c, pattern, next)
    [] pattern.type = "property" -> PropertyToken(c, pattern, next)
    [] OTHER -> c

\* One turn of the while loop of processCurrentLine, next being the match
\* found in restLine.
ProcessNext(c, restLine, next) ==
  ProcessPattern(
    [(IF next.index > 0
      THEN output(c, "code", SubSeq(restLine, 1, next.index))
      ELSE c) EXCEPT !.l.currentColumn = @ + next.index + next.length],
    c.s.patterns[next.pattern],
    SubSeq(restLine, next.index + 1, next.index + next.length),
    next)

\* One turn of the while loop of processCurrentLine that finds a match.
ProcessMatch(c, line) == ProcessNext(c, RestLine(c, line), NextMatch(c, line))

\* The end of processCurrentLine: the text after the last match and the
\* line break.
ProcessRest(c, line) ==
  LET c1 == IF c.l.currentColumn < Len(line)
            THEN output(c, "code", RestLine(c, line))
            ELSE c
  IN  output(c1, "code", <<"\n">>)

\* s.split(" "), cur being the piece in the making.
RECURSIVE SplitSpaces(_, _)
SplitSpaces(s, cur) ==
  IF s = <<>> THEN <<cur>>
  ELSE IF s[1] = " " THEN <<cur>> \o SplitSpaces(Tail(s), <<>>)
  ELSE SplitSpaces(Tail(s), Append(cur, s[1]))

\* pieces.filter((s) => s.trim()).map((s) => s.trim())
RECURSIVE TrimmedWords(_)
TrimmedWords(pieces) ==
  IF pieces = <<>> THEN <<>>
  ELSE (IF Trim(pieces[1]) = <<>> THEN <<>> ELSE <<Trim(pieces[1])>>)
       \o TrimmedWords(Tail(pieces))

\* The names listed after a #use or #param directive of the given length.
DirectiveWords(line, length) ==
  TrimmedWords(SplitSpaces(SubSeq(line, length + 1, Len(line)), <<>>))

DigitChars == <<"0", "1", "2", "3", "4", "5", "6", "7", "8", "9">>

\* String(n) for a natural number n.
RECURSIVE NumString(_)
NumString(n) ==
  IF n < 10 THEN <<DigitChars[n + 1]>>
  ELSE NumString(n \div 10) \o <<DigitChars[(n % 10) + 1]>>

\* s.padStart(width, " ")
RECURSIVE PadStart(_, _)
PadStart(s, width) == IF Len(s) >= width THEN s ELSE PadStart(<<" ">> \o s, width)

\* The comment put before a line under options.preserveCodeReference.
CodeReferenceComment(c, templates) ==
  LET reference == c.s.pass1[c.l.currentLine + 1].codeReference
      sourceLine == templates[reference.filePath][reference.lineNumber]
      width == Len(NumString(Len(c.s.pass1)))
  IN  <<"/", "/", " ">> \o PadStart(NumString(c.l.currentLine + 1), width) \o <<" ", "|", " ">>
      \o sourceLine \o <<"\n">>

\* continue, or the end of the loop body: on to the next line.
Continue(c) ==
  IF c.error # NoError THEN c
  ELSE [c EXCEPT !.l.i = @ + 1, !.l.directive = "", !.pc = "loop"]

\* processCurrentLine() is entered, for an ordinary line (directive "") or
\* for the condition of the directive.
EnterProcessCurrentLine(c, directive) ==
  IF c.error # NoError THEN c
  ELSE [c EXCEPT !.l.directive = directive, !.pc = "processCurrentLine"]

\* A #use directive that puts its patterns before the others.
RECURSIVE UseDirectiveInFront(_, _)
UseDirectiveInFront(c, uses) ==
  IF uses = <<>> \/ c.error # NoError THEN c
  ELSE UseDirectiveInFront([c EXCEPT !.s.patterns = lookupPattern(uses[1]) \o @], Tail(uses))

\* The loop over the names of a #use directive.
RECURSIVE UseDirective(_, _)
UseDirective(c, uses) ==
  IF uses = <<>> \/ c.error # NoError THEN c
  ELSE IF lookupPattern(uses[1]) = <<>>
  THEN FailAtLine(c, "Unknown use", "code-pattern-not-found")
  ELSE UseDirective([c EXCEPT !.s.patterns = @ \o lookupPattern(uses[1])], Tail(uses))

\* patterns.find(...) of the #param directive finds a pattern.
HasParamPattern(patterns, pattern) ==
  \E k \in 1..Len(patterns) :
    patterns[k].type = "param" /\ patterns[k].word = pattern.word

\* The loop over the names of a #param directive; no param pattern has a
\* paramType, so that a repeated name is always ignored.
RECURSIVE ParamDirectiveLoop(_, _)
ParamDirectiveLoop(c, params) ==
  IF params = <<>> \/ c.error # NoError THEN c
  ELSE IF ~IsIdentifier(params[1])
  THEN Fail(c, PlainError("Invalid parameter identifier"))
  ELSE ParamDirectiveLoop(
         IF HasParamPattern(c.s.patterns, createParamPattern(params[1])) THEN c
         ELSE [c EXCEPT !.s.patterns = Append(@, createParamPattern(params[1]))],
         Tail(params))

ParamDirective(c, params) ==
  IF Len(params) = 0
  THEN FailAtLine(c, "No parameters specified in #param directive", "parameter-missing")
  ELSE ParamDirectiveLoop(c, params)

\* No value: null in an entry of preprocessIfStack.
NullState == -1

\* An entry of preprocessIfStack.
IfEntry(type, initialParentheses, initialBracket, previousParentheses, previousBracket) ==
  [type |-> type,
   initialParenthesesState |-> initialParentheses,
   initialBracketState |-> initialBracket,
   previousBlockParenthesesState |-> previousParentheses,
   previousBlockBracketState |-> previousBracket]

\* The start of a condition: the scaffold, the expression opened and the
\* parentheses state cached and reset.
OpenCondition(c, column, scaffold, directive) ==
  LET c1 == output([c EXCEPT !.l.currentColumn = column], "raw", scaffold)
  IN  IF c1.error # NoError THEN c1
      ELSE EnterProcessCurrentLine(
             [c1 EXCEPT !.l.expressionOpen = TRUE,
                        !.l.currentPreProcessorExpression = <<>>,
                        !.l.cachedParenthesesState = c1.l.currentParenthesesState,
                        !.l.currentParenthesesState = 0],
             directive)

\* An end of the condition that keeps the parentheses state of the condition.
CloseConditionKeepDepth(c) ==
  IF c.error # NoError THEN c
  ELSE IF Len(c.s.currentFunctionCall) > 0
  THEN FailAtLine(c, "Incomplete function call", "code-generation-failed")
  ELSE output([c EXCEPT !.s.result = @ \o c.l.currentPreProcessorExpression,
                        !.l.expressionOpen = FALSE,
                        !.l.currentPreProcessorExpression = <<>>],
              "raw", <<")", " ", "{", "\n">>)

\* What follows processCurrentLine() in #if and #elif.
CloseCondition(c) ==
  IF c.error # NoError THEN c
  ELSE IF c.l.currentParenthesesState # 0
  THEN FailAtLine(c, "Unmatched parentheses in preprocessor expression",
                  "code-generation-failed")
  ELSE LET c1 == [c EXCEPT !.l.currentParenthesesState = c.l.cachedParenthesesState]
       IN  IF Len(c1.s.currentFunctionCall) > 0
           THEN FailAtLine(c1, "Incomplete function call", "code-generation-failed")
           ELSE output([c1 EXCEPT !.s.result = @ \o c1.l.currentPreProcessorExpression,
                                  !.l.expressionOpen = FALSE,
                                  !.l.currentPreProcessorExpression = <<>>],
                       "raw", <<")", " ", "{", "\n">>)

\* An #if that does not look at the open calls.
IfDirectiveAnywhere(c, line) ==
  IF Len(Trim(SubSeq(line, 5, Len(line)))) = 0
  THEN FailAtLine(c, "Empty condition in #if directive", "code-generation-failed")
  ELSE OpenCondition(
         [c EXCEPT !.s.preprocessIfStack =
            Append(@, IfEntry("if", c.l.currentParenthesesState,
                              c.l.currentBracketState, NullState, NullState))],
         4, <<"i", "f", " ", "(">>, "#if")

\* #if
IfDirective(c, line) ==
  IF Len(c.s.currentFunctionCall) > 0
  THEN FailAtLine(c, "Preprocessor directive inside function call",
                  "code-generation-failed")
  ELSE IF Len(Trim(SubSeq(line, 5, Len(line)))) = 0
  THEN FailAtLine(c, "Empty condition in #if directive", "code-generation-failed")
  ELSE OpenCondition(
         [c EXCEPT !.s.preprocessIfStack =
            Append(@, IfEntry("if", c.l.currentParenthesesState,
                              c.l.currentBracketState, NullState, NullState))],
         4, <<"i", "f", " ", "(">>, "#if")

\* The message of a depth mismatch, which names the depth expected and the
\* depth got.
MismatchMessage(what, line, expected, got) ==
  what \o " state mismatch in #elif directive at line " \o ToString(line)
  \o ", expected " \o ToString(expected) \o ", got " \o ToString(got)

\* A directive that compares no depths.
BranchCheckNone(c) ==
  IF Len(c.s.currentFunctionCall) > 0
  THEN FailAtLine(c, "Preprocessor directive inside function call",
                  "code-generation-failed")
  ELSE c

\* The checks that #elif, #else and #endif share, the stack being non-empty.
BranchCheck(c) ==
  IF Len(c.s.currentFunctionCall) > 0
  THEN FailAtLine(c, "Preprocessor directive inside function call",
                  "code-generation-failed")
  ELSE IF /\ c.s.preprocessIfStack[Len(c.s.preprocessIfStack)].previousBlockParenthesesState # NullState
          /\ c.l.currentParenthesesState #
               c.s.preprocessIfStack[Len(c.s.preprocessIfStack)].previousBlockParenthesesState
  THEN FailAtLine(c, MismatchMessage("Parentheses", c.l.currentLine + 1,
                       c.s.preprocessIfStack[Len(c.s.preprocessIfStack)].previousBlockParenthesesState,
                       c.l.currentParenthesesState),
                  "code-generation-failed")
  ELSE IF /\ c.s.preprocessIfStack[Len(c.s.preprocessIfStack)].previousBlockBracketState # NullState
          /\ c.l.currentBracketState #
               c.s.preprocessIfStack[Len(c.s.preprocessIfStack)].previousBlockBracketState
  THEN FailAtLine(c, MismatchMessage("Bracket", c.l.currentLine + 1,
                       c.s.preprocessIfStack[Len(c.s.preprocessIfStack)].previousBlockBracketState,
                       c.l.currentBracketState),
                  "code-generation-failed")
  ELSE c

\* A branch change that records no depth.
BranchResetNoRecord(c) ==
  [c EXCEPT !.l.currentParenthesesState =
                c.s.preprocessIfStack[Len(c.s.preprocessIfStack)].initialParenthesesState,
            !.l.currentBracketState =
                c.s.preprocessIfStack[Len(c.s.preprocessIfStack)].initialBracketState]

\* #elif and #else: the state of the block that ends is recorded and the
\* state at the start of the block restored.
BranchReset(c) ==
  LET n == Len(c.s.preprocessIfStack)
      top == c.s.preprocessIfStack[n]
  IN  [c EXCEPT !.s.preprocessIfStack[n].previousBlockParenthesesState =
                    c.l.currentParenthesesState,
                !.s.preprocessIfStack[n].previousBlockBracketState =
                    c.l.currentBracketState,
                !.l.currentParenthesesState = top.initialParenthesesState,
                !.l.currentBracketState = top.initialBracketState]

\* A test that accepts #elif and #else after any branch.
BranchMismatchEmptyOnly(c) == Len(c.s.preprocessIfStack) = 0

\* preprocessIfStack is empty or its top is neither "if" nor "elif".
BranchMismatch(c) ==
  \/ Len(c.s.preprocessIfStack) = 0
  \/ c.s.preprocessIfStack[Len(c.s.preprocessIfStack)].type \notin {"if", "elif"}

\* #elif
ElifDirective(c, line) ==
  IF BranchMismatch(c)
  THEN Fail(c, GenerateError("#elif mismatch", "code-generation-failed",
                             <<>>, c.l.currentLine + 1))
  ELSE IF BranchCheck(c).error # NoError THEN BranchCheck(c)
  ELSE LET c1 == BranchReset(c)
       IN  IF Len(Trim(SubSeq(line, 7, Len(line)))) = 0
           THEN FailAtLine(c1, "Empty condition in #elif directive",
                           "code-generation-failed")
           ELSE OpenCondition(
                  [c1 EXCEPT !.s.preprocessIfStack[Len(c.s.preprocessIfStack)].type = "elif"],
                  6, <<"}", " ", "e", "l", "s", "e", " ", "i", "f", " ", "(">>, "#elif")

\* #else
ElseDirective(c, line) ==
  IF BranchMismatch(c)
  THEN Fail(c, GenerateError("#else mismatch", "code-generation-failed",
                             <<>>, c.l.currentLine + 1))
  ELSE IF BranchCheck(c).error # NoError THEN BranchCheck(c)
  ELSE LET c1 == BranchReset(c)
       IN  IF Trim(SubSeq(line, 6, Len(line))) # <<>>
           THEN FailAtLine(c1, "Unexpected content after #else", "code-generation-failed")
           ELSE output([c1 EXCEPT !.s.preprocessIfStack[Len(c.s.preprocessIfStack)].type = "else"],
                       "raw", <<"}", " ", "e", "l", "s", "e", " ", "{", "\n">>)

\* #endif
EndifDirective(c, line) ==
  IF Len(c.s.preprocessIfStack) = 0
  THEN Fail(c, GenerateError("#endif mismatch", "code-generation-failed",
                             <<>>, c.l.currentLine + 1))
  ELSE IF BranchCheck(c).error # NoError THEN BranchCheck(c)
  ELSE IF Trim(SubSeq(line, 7, Len(line))) # <<>>
  THEN FailAtLine(c, "Unexpected content after #endif", "code-generation-failed")
  ELSE LET c1 == output(c, "raw", <<"}", "\n">>)
       IN  IF c1.error # NoError THEN c1
           ELSE [c1 EXCEPT !.s.preprocessIfStack = SubSeq(@, 1, Len(@) - 1)]

\* A line that starts with "#".
Directive(c, line) ==
  LET done(c1) == Continue(IF c1.error # NoError THEN c1
                           ELSE [c1 EXCEPT !.l.previousLineWasEmpty = TRUE])
  IN  IF StartsWith(line, <<"#", "u", "s", "e", " ">>) THEN done(UseDirective(c, DirectiveWords(line, 5)))
      ELSE IF StartsWith(line, <<"#", "p", "a", "r", "a", "m", " ">>) THEN done(ParamDirective(c, DirectiveWords(line, 7)))
      ELSE IF StartsWith(line, <<"#", "i", "f", " ">>) THEN IfDirective(c, line)
      ELSE IF StartsWith(line, <<"#", "e", "l", "i", "f", " ">>) THEN ElifDirective(c, line)
      ELSE IF StartsWith(line, <<"#", "e", "l", "s", "e">>) THEN done(ElseDirective(c, line))
      ELSE IF StartsWith(line, <<"#", "e", "n", "d", "i", "f">>) THEN done(EndifDirective(c, line))
      ELSE IF line \in {<<"#", "u", "s", "e">>, <<"#", "p", "a", "r", "a", "m">>, <<"#", "i", "f">>, <<"#", "e", "l", "i", "f">>}
      THEN FailAtLine(c, "Missing content after preprocessor directive",
                      "code-generation-failed")
      ELSE FailAtLine(c, "Unknown preprocessor directive", "code-generation-failed")

\* The start of an iteration that skips no empty line.
BeginLineKeepBlank(c, preserveCodeReference, templates) ==
  LET line == c.s.pass1[c.l.i + 1].line
      c0 == [c EXCEPT !.l.currentLine = c.l.i, !.l.currentColumn = 0,
                      !.l.previousLineWasEmpty = (line = <<>>)]
  IN  IF StartsWith(line, <<"#">>) THEN Directive(c0, line)
      ELSE EnterProcessCurrentLine(c0, "")

\* The body of the for loop of generateImpl up to the call of
\* processCurrentLine, or all of it for a line that does not call it.
BeginLine(c, preserveCodeReference, templates) ==
  LET line == c.s.pass1[c.l.i + 1].line
      c0 == [c EXCEPT !.l.currentLine = c.l.i, !.l.currentColumn = 0]
      c1 == IF preserveCodeReference
            THEN output(c0, "raw", CodeReferenceComment(c0, templates))
            ELSE c0
  IN  IF c1.error # NoError THEN c1
      ELSE IF line = <<>> /\ (c.l.i = Len(c.s.pass1) - 1 \/ c.l.previousLineWasEmpty)
      THEN Continue(c1)
      ELSE LET c2 == [c1 EXCEPT !.l.previousLineWasEmpty = (line = <<>>)]
           IN  IF StartsWith(line, <<"#">>) THEN Directive(c2, line)
               ELSE EnterProcessCurrentLine(c2, "")

\* The end of processCurrentLine and what follows its call.
EndLine(c) ==
  LET line == c.s.pass1[c.l.i + 1].line
      c1 == ProcessRest(c, line)
  IN  IF c.l.directive = "" THEN Continue(c1)
      ELSE LET c2 == CloseCondition(c1)
           IN  Continue(IF c2.error # NoError THEN c2
                        ELSE [c2 EXCEPT !.l.previousLineWasEmpty = TRUE])

\* The checks of generate once generateImpl has returned.
EndOfStreamError(s) ==
  IF Len(s.preprocessIfStack) > 0
  THEN GenerateError("Unclosed preprocessor directive", "code-generation-failed", <<>>, 0)
  ELSE IF Len(s.currentFunctionCall) > 0
  THEN GenerateError("Unclosed function call", "code-generation-failed", <<>>, 0)
  ELSE IF s.currentParenthesesState # 0
  THEN GenerateError("Unmatched parentheses at the end of processing",
                     "code-generation-failed", <<>>, 0)
  ELSE IF s.currentBracketState # 0
  THEN GenerateError("Unmatched brackets at the end of processing",
                     "code-generation-failed", <<>>, 0)
  ELSE IF s.mainFunction = "started"
  THEN GenerateError("Main function context started but not ended at the end of processing",
                     "code-generation-failed", <<>>, 0)
  ELSE NoError

\* The generatorState object generate builds.
NewGeneratorState(filePath, pass1) ==
  [pass1 |-> pass1,
   filePath |-> filePath,
   preprocessIfStack |-> <<>>,
   patterns |-> DEFAULT_PATTERNS,
   currentFunctionCall |-> <<>>,
   currentParenthesesState |-> 0,
   mainFunction |-> "not-started",
   currentBracketState |-> 0,
   result |-> <<>>,
   usedParams |-> <<>>,
   usedVariables |-> <<>>]

\* The local variables of generateImpl when its loop starts.
NewLocals(s) ==
  [i |-> 0,
   currentLine |-> 0,
   currentColumn |-> 0,
   currentParenthesesState |-> s.currentParenthesesState,
   currentBracketState |-> s.currentBracketState,
   expressionOpen |-> FALSE,
   currentPreProcessorExpression |-> <<>>,
   previousLineWasEmpty |-> TRUE,
   cachedParenthesesState |-> 0,
   directive |-> ""]

(***************************************************************************)
(* State.  The first group is parser.parse at work on one repository; the  *)
(* second group is parseComments applied to a text and to its own output;  *)
(* the third group is generator.generate at work on one template.          *)
(***************************************************************************)
VARIABLES
  basePath,        \* repo.basePath
  repo,            \* repo.templates: template key -> raw lines
  order,           \* the iteration order of repo.templates (a Map)
  pc,              \* where parse is: "comments", "include", "resolving",
                   \* "macro", "expanding", "done", "failed" ("idle": not run)
  idx,             \* the position in order of the running for loop
  parseState,      \* template key -> [lines, includeProcessed]
  includeStack,    \* the includeStack argument of the resolver
  frames,          \* per active resolver call: its lineNumber and lines
  pass1Repo,       \* template key -> parsed lines
  macros,          \* the macro table of the running parseMacroDirectives
  macroLine,       \* its lineNumber
  processedLines,  \* its processedLines
  error,           \* the error parse has thrown, NoError if none
  cRaw,            \* the lines given to parseComments
  cOnce,           \* its result
  cTwice,          \* its result on the lines of cOnce
  cStep,           \* how many times it has been applied (-1: not used)
  options,         \* the options argument of generate
  generatorState,  \* the generatorState object of generate
  local,           \* the local variables of generateImpl
  gpc,             \* where generate is: "loop" (at the head of the for loop),
                   \* "processCurrentLine" (at the head of its while loop),
                   \* "done", "failed" ("idle": not called)
  generateError,   \* the error generate has thrown, NoError if none
  generateResult,  \* the result generate has returned
  dpc,             \* where generateDirectory is: "loop" (at the head of its for
                   \* loop), "generate" (in its call of generate), "done",
                   \* "failed" ("idle": not called)
  dIdx,            \* the position in the templates of its for loop
  directoryResult, \* its result Map: template key -> [filePath, generateResult]
  timeoutId,       \* Debouncer.timeoutId: the timer of the last setTimeout, NoTimer
                   \* for null
  timers,          \* the timers of the event loop that are set and not cleared
  nextTimer,       \* how many timers setTimeout has created
  invoked,         \* the timers whose function has been called, in order
  cleared,         \* the timers given to clearTimeout
  wpc,             \* where the TemplateWatcher is: "created", "initial" (start
                   \* awaits the initial build), "watching", "stopped"
  isBuilding,      \* TemplateWatcher.isBuilding
  running,         \* how many calls of build have not settled
  outcome,         \* how the last call of build that settled ended
  changes,         \* how many changes of template files the watcher has seen
  built            \* how many of them had been seen when the last build started

pvars == <<basePath, repo, order, pc, idx, parseState, includeStack, frames, pass1Repo,
           macros, macroLine, processedLines, error>>

cvars == <<cRaw, cOnce, cTwice, cStep>>

gvars == <<options, generatorState, local, gpc, generateError, generateResult>>

dvars == <<dpc, dIdx, directoryResult>>

bvars == <<timeoutId, timers, nextTimer, invoked, cleared>>

wvars == <<wpc, isBuilding, running, outcome, changes, built>>

vars == <<pvars, cvars, gvars, dvars, bvars, wvars>>

\* null, for timeoutId.
NoTimer == 0

\* new Debouncer(delay): no timer is set.
DebouncerCreated ==
  /\ timeoutId = NoTimer
  /\ timers = {}
  /\ nextTimer = 0
  /\ invoked = <<>>
  /\ cleared = {}

\* new TemplateWatcher(options): a new Debouncer, isBuilding = false.
WatcherCreated ==
  /\ DebouncerCreated
  /\ wpc = "created"
  /\ isBuilding = FALSE
  /\ running = 0
  /\ outcome = "none"
  /\ changes = 0
  /\ built = 0

\* generate has not been called.
NoResult == [code |-> <<>>, params |-> <<>>, variables |-> <<>>, hasMainFunction |-> FALSE]

GenerateIdle ==
  /\ options = [preserveCodeReference |-> FALSE]
  /\ generatorState = NewGeneratorState(<<>>, <<>>)
  /\ local = NewLocals(generatorState)
  /\ gpc = "idle"
  /\ generateError = NoError
  /\ generateResult = NoResult
  /\ dpc = "idle" /\ dIdx = 0 /\ directoryResult = <<>>
  /\ WatcherCreated

NotRun == [ok |-> FALSE, lines |-> <<>>, error |-> NoError]

\* The empty Map.
EmptyMap == <<>>

(***************************************************************************)
(* parser.parse                                                            *)
(***************************************************************************)
\* The template keys, in the order in which the loader adds them to the Map.
KeyNames == <<(<<"A">>), (<<"B">>), (<<"C">>)>>

\* The ways to give each of k templates one line or more of pool, with no
\* more than total lines in all: a sequence of k line arrays.
RECURSIVE Splits(_, _, _)
Splits(pool, k, total) ==
  IF k = 0 THEN {<<>>}
  ELSE UNION {{<<raw>> \o rest : raw \in [1..n -> pool],
                                 rest \in Splits(pool, k - 1, total - n)} :
              n \in 1..(total - (k - 1))}

\* Repositories of 1 to maxKeys templates.
Repos(pool, maxKeys, total) == UNION {Splits(pool, k, total) : k \in 1..maxKeys}

\* The values of repo.basePath.
BasePaths == <<(<<"s", "r", "c">>), (<<"l", "i", "b">>)>>

\* parse(repo) is called on one of the repositories in repos, each given as
\* the sequence of the raw line arrays of its templates.
ParseInit(repos) ==
  /\ \E r \in repos :
       /\ order = [i \in 1..Len(r) |-> KeyNames[i]]
       /\ repo = [key \in {KeyNames[i] : i \in 1..Len(r)} |->
                    r[CHOOSE i \in 1..Len(r) : KeyNames[i] = key]]
  /\ basePath = BasePaths[1]
  /\ pc = "comments"
  /\ idx = 1
  /\ parseState = EmptyMap
  /\ includeStack = <<>>
  /\ frames = <<>>
  /\ pass1Repo = EmptyMap
  /\ macros = <<>>
  /\ macroLine = 0
  /\ processedLines = <<>>
  /\ error = NoError
  /\ cRaw = <<>> /\ cOnce = NotRun /\ cTwice = NotRun /\ cStep = -1
  /\ GenerateIdle

\* throw new WgslTemplateParseError(...)
Throw(e) == error' = e /\ pc' = "failed"

\* The end of one iteration of a for loop over the templates.
NextTemplate(sameStep, nextStep) ==
  IF idx = Len(order)
  THEN idx' = 1 /\ pc' = nextStep
  ELSE idx' = idx + 1 /\ pc' = sameStep

\* STEP 1, one iteration: comments removed from one template.
ParseCommentsStep ==
  /\ pc = "comments"
  /\ LET templateKey == order[idx]
         parsedLines == parseComments(templateKey, repo[templateKey])
     IN  IF ~parsedLines.ok
         THEN /\ Throw(parsedLines.error)
              /\ UNCHANGED <<idx, parseState, bvars, wvars>>
         ELSE /\ parseState' =
                   parseState @@
                   (templateKey :>
                      [lines |-> [n \in 1..Len(parsedLines.lines) |->
                                    ParsedLine(parsedLines.lines[n], templateKey, n)],
                       includeProcessed |-> FALSE])
              /\ NextTemplate("comments", "include")
              /\ error' = error
  /\ UNCHANGED <<basePath, repo, order, includeStack, frames, pass1Repo, macros, macroLine,
                 processedLines, cvars, gvars, dvars, bvars, wvars>>

\* STEP 2, one iteration: the resolver is called with [templateKey].
IncludeCall ==
  /\ pc = "include"
  /\ includeStack' = <<order[idx]>>
  /\ frames' = <<>>
  /\ pc' = "resolving"
  /\ UNCHANGED <<basePath, repo, order, idx, parseState, pass1Repo, macros, macroLine,
                 processedLines, error, cvars, gvars, dvars, bvars, wvars>>

\* An include site at which nothing is spliced.
SpliceNothing(lines, included) == lines

\* lines.push(...parseState.get(includePath).lines)
Splice(lines, included) == lines \o included

\* A resolver call returns, with ps the parse state it leaves: to the call
\* that pushed the file (which splices the file's lines and pops), or to STEP 2
\* (which stores the template's lines in pass1Repo).
ResolverReturns(ps, callerFrames) ==
  LET currentFile == includeStack[Len(includeStack)]
  IN  /\ parseState' = ps
      /\ IF Len(includeStack) = 1
         THEN /\ pass1Repo' = [k \in DOMAIN pass1Repo \cup {currentFile} |->
                                 IF k = currentFile THEN ps[k].lines ELSE pass1Repo[k]]
              /\ includeStack' = <<>>
              /\ frames' = <<>>
              /\ NextTemplate("include", "macro")
         ELSE LET c == Len(includeStack) - 1
              IN  /\ frames' = [callerFrames EXCEPT
                                  ![c].lines = Splice(@, ps[currentFile].lines),
                                  ![c].lineNumber = @ + 1]
                  /\ includeStack' = SubSeq(includeStack, 1, c)
                  /\ UNCHANGED <<pass1Repo, idx, pc, bvars, wvars>>

\* The resolver is entered for the file on top of the include stack.
ResolverEnter ==
  /\ pc = "resolving"
  /\ Len(frames) < Len(includeStack)
  /\ LET currentFile == includeStack[Len(includeStack)]
     IN  IF currentFile \notin DOMAIN parseState
         THEN /\ Throw(ParseError("not in parse state", "include-resolution",
                                  currentFile, 0))
              /\ UNCHANGED <<idx, parseState, includeStack, frames, pass1Repo, bvars, wvars>>
         ELSE IF parseState[currentFile].includeProcessed
         THEN ResolverReturns(parseState, frames) /\ error' = error
         ELSE /\ frames' = Append(frames, [lineNumber |-> 0, lines |-> <<>>])
              /\ UNCHANGED <<pc, idx, parseState, includeStack, pass1Repo, error, bvars, wvars>>
  /\ UNCHANGED <<basePath, repo, order, macros, macroLine, processedLines, cvars, gvars, dvars, bvars, wvars>>

\* One iteration of the resolver's loop over the lines of the current file.
ResolverLine ==
  /\ pc = "resolving"
  /\ Len(frames) = Len(includeStack)
  /\ LET currentFile == includeStack[Len(includeStack)]
         currentState == parseState[currentFile]
         f == frames[Len(frames)]
     IN  /\ f.lineNumber < Len(currentState.lines)
         /\ LET parsedLine == currentState.lines[f.lineNumber + 1]
                out == IncludeLineOutcome(includeStack, parseState, currentFile,
                                          f.lineNumber, parsedLine)
            IN  CASE out.kind = "throw" ->
                       /\ Throw(out.error)
                       /\ UNCHANGED <<includeStack, frames, bvars, wvars>>
                  [] out.kind = "push" ->
                       /\ includeStack' = Append(includeStack, out.includePath)
                       /\ UNCHANGED <<frames, pc, error, bvars, wvars>>
                  [] out.kind = "keep" ->
                       /\ frames' = [frames EXCEPT
                                       ![Len(frames)].lines = Append(@, parsedLine),
                                       ![Len(frames)].lineNumber = @ + 1]
                       /\ UNCHANGED <<includeStack, pc, error, bvars, wvars>>
  /\ UNCHANGED <<basePath, repo, order, idx, parseState, pass1Repo, macros, macroLine,
                 processedLines, cvars, gvars, dvars, bvars, wvars>>

\* The loop is over: the file is marked processed, its lines replaced.
ResolverDone ==
  /\ pc = "resolving"
  /\ Len(frames) = Len(includeStack)
  /\ LET currentFile == includeStack[Len(includeStack)]
         f == frames[Len(frames)]
     IN  /\ f.lineNumber = Len(parseState[currentFile].lines)
         /\ ResolverReturns(
              [parseState EXCEPT ![currentFile] =
                 [lines |-> f.lines, includeProcessed |-> TRUE]],
              SubSeq(frames, 1, Len(frames) - 1))
  /\ UNCHANGED <<basePath, repo, order, macros, macroLine, processedLines, error, cvars, gvars, dvars, bvars, wvars>>

\* A macro pass that numbers the lines of its output anew.
ProcessedLineRenumbered(line, parsedLine, fileName, lineNumber) ==
  ParsedLine(line, fileName, lineNumber + 1)

\* processedLines.push({line, codeReference: parsedLine.codeReference})
ProcessedLine(line, parsedLine, fileName, lineNumber) ==
  [line |-> line, codeReference |-> parsedLine.codeReference]

\* parseMacroDirectives is called and goes on with the macro table of the
\* call before.
MacroCallKeepMacros ==
  /\ pc = "macro"
  /\ processedLines' = <<>>
  /\ macroLine' = 0
  /\ pc' = "expanding"
  /\ UNCHANGED <<basePath, repo, order, idx, parseState, includeStack, frames, pass1Repo,
                 macros, error, cvars, gvars, dvars, bvars, wvars>>

\* STEP 3, one iteration: parseMacroDirectives is called on a template.
MacroCall ==
  /\ pc = "macro"
  /\ macros' = <<>>
  /\ processedLines' = <<>>
  /\ macroLine' = 0
  /\ pc' = "expanding"
  /\ UNCHANGED <<basePath, repo, order, idx, parseState, includeStack, frames, pass1Repo,
                 error, cvars, gvars, dvars, bvars, wvars>>

\* One iteration of the macro loop over the lines of the template.
MacroLine ==
  /\ pc = "expanding"
  /\ LET templateKey == order[idx]
         lines == pass1Repo[templateKey]
     IN  /\ macroLine < Len(lines)
         /\ LET parsedLine == lines[macroLine + 1]
                out == MacroLineOutcome(macros, templateKey, macroLine, parsedLine.line)
            IN  IF out.kind = "throw"
                THEN /\ Throw(out.error)
                     /\ UNCHANGED <<macros, macroLine, processedLines, bvars, wvars>>
                ELSE /\ macros' = out.macros
                     /\ processedLines' =
                          Append(processedLines,
                                 ProcessedLine(out.line, parsedLine, templateKey,
                                               macroLine))
                     /\ macroLine' = macroLine + 1
                     /\ UNCHANGED <<pc, error, bvars, wvars>>
  /\ UNCHANGED <<basePath, repo, order, idx, parseState, includeStack, frames, pass1Repo, cvars, gvars, dvars, bvars, wvars>>

\* parseMacroDirectives returns; the template's lines are replaced.
MacroDone ==
  /\ pc = "expanding"
  /\ macroLine = Len(pass1Repo[order[idx]])
  /\ pass1Repo' = [pass1Repo EXCEPT ![order[idx]] = processedLines]
  /\ NextTemplate("macro", "done")
  /\ UNCHANGED <<basePath, repo, order, parseState, includeStack, frames, macros, macroLine,
                 processedLines, error, cvars, gvars, dvars, bvars, wvars>>

Next ==
  \/ ParseCommentsStep
  \/ IncludeCall
  \/ ResolverEnter
  \/ ResolverLine
  \/ ResolverDone
  \/ MacroCall
  \/ MacroLine
  \/ MacroDone

(***************************************************************************)
(* parse on small repositories whose lines are #include directives (of the *)
(* second and third template, which may not exist), a #define and a use of *)
(* its macro.                                                              *)
(***************************************************************************)
\* Most lines in a repository, all templates together.
MaxRepoLines == 4

\* #include "key"
IncludeLine(key) == IncludeWord \o <<" ">> \o Quote \o key \o Quote

\* #define name value
DefineLine(name, value) == DefineWord \o <<" ">> \o name \o <<" ">> \o value

IncludePool ==
  {IncludeLine(KeyNames[i]) : i \in 2..Len(KeyNames)}
  \cup {DefineLine(<<"X">>, <<"y">>), <<"X">>}

Init == ParseInit(Repos(IncludePool, Len(KeyNames), MaxRepoLines))

Spec == Init /\ [][Next]_vars

(***************************************************************************)
(* parse on small repositories whose directives may stand inside comments: *)
(* the lines open or close a block comment, include the second template    *)
(* (which may not exist) or define a macro by itself, outside a comment or *)
(* inside one.                                                             *)
(***************************************************************************)
\* Most lines in a repository, all templates together.
MaxPassLines == 3

BlockOpen == <<"/", "*">>

BlockClose == <<"*", "/">>

PassPool ==
  {BlockOpen, BlockClose,
   IncludeLine(KeyNames[2]),
   <<"/", "/">> \o IncludeLine(KeyNames[2]),
   BlockOpen \o IncludeLine(KeyNames[2]) \o BlockClose,
   DefineLine(<<"X">>, <<"X">>),
   <<"X">>}

PassInit == ParseInit(Repos(PassPool, 2, MaxPassLines))

SpecPasses == PassInit /\ [][Next]_vars

(***************************************************************************)
(* parse on one template whose lines define the macros X, Y and Z by one   *)
(* another or by text with dollar signs, and use them, alone or as part of *)
(* a longer identifier.                                                    *)
(***************************************************************************)
\* Most lines in the template.
MaxMacroLines == 3

MacroPool ==
  {DefineLine(<<"X">>, <<"Y">>), DefineLine(<<"Y">>, <<"Z">>),
   DefineLine(<<"Z">>, <<"X">>), DefineLine(<<"Y">>, <<"X">>),
   DefineLine(<<"X">>, <<"X">>), DefineLine(<<"X">>, <<"$", "$">>),
   <<"X">>, <<"X", "Y">>}

MacroInit == ParseInit(Repos(MacroPool, 1, MaxMacroLines))

SpecMacro == MacroInit /\ [][Next]_vars

(***************************************************************************)
(* The comment stripper applied to arbitrary short texts.                  *)
(***************************************************************************)
\* Longest text (characters, line breaks included) given to the stripper.
MaxTextLen == 6

CommentChars == {"/", "*", "a", " ", "\n"}

Texts(chars, n) == UNION {[1..t -> chars] : t \in 0..n}

CFile == <<"A">>

CInit ==
  /\ \E text \in Texts(CommentChars, MaxTextLen) : cRaw = SplitLines(text, <<>>)
  /\ cOnce = NotRun
  /\ cTwice = NotRun
  /\ cStep = 0
  /\ basePath = BasePaths[1]
  /\ repo = EmptyMap /\ order = <<>> /\ pc = "idle" /\ idx = 0
  /\ parseState = EmptyMap /\ includeStack = <<>> /\ frames = <<>>
  /\ pass1Repo = EmptyMap /\ macros = <<>> /\ macroLine = 0
  /\ processedLines = <<>> /\ error = NoError
  /\ GenerateIdle

\* parseComments on the raw lines.
StripOnce ==
  /\ cStep = 0
  /\ cOnce' = parseComments(CFile, cRaw)
  /\ cStep' = 1
  /\ UNCHANGED <<cRaw, cTwice, pvars, gvars, dvars, bvars, wvars>>

\* parseComments on its own output.
StripTwice ==
  /\ cStep = 1
  /\ cOnce.ok
  /\ cTwice' = parseComments(CFile, cOnce.lines)
  /\ cStep' = 2
  /\ UNCHANGED <<cRaw, cOnce, pvars, gvars, dvars, bvars, wvars>>

CNext == StripOnce \/ StripTwice

SpecComments == CInit /\ [][CNext]_vars

(***************************************************************************)
(* generator.generate                                                      *)
(***************************************************************************)
\* The context of the running call.
Context == [s |-> generatorState, l |-> local, error |-> NoError, pc |-> gpc]

\* The call goes on from context c, or ends with the error thrown.
Proceed(c) ==
  /\ generatorState' = c.s
  /\ local' = c.l
  /\ IF c.error # NoError
     THEN gpc' = "failed" /\ generateError' = c.error
     ELSE gpc' = c.pc /\ UNCHANGED generateError
  /\ UNCHANGED <<options, generateResult, pvars, cvars, dvars, bvars, wvars>>

\* The line of the running turn of the for loop.
CurrentLine == generatorState.pass1[local.i + 1].line

\* generate(filePath, repo, codeGenerator, options) is called on the
\* repository parse has returned, up to the call of generateImpl.
GenerateCall ==
  /\ gpc = "idle"
  /\ pc = "done"
  /\ \E filePath \in {KeyNames[k] : k \in 1..Len(KeyNames)} :
       IF filePath \notin DOMAIN pass1Repo
       THEN /\ gpc' = "failed"
            /\ generateError' = GenerateError("Template not found for file",
                                              "generator-not-found", filePath, 0)
            /\ UNCHANGED <<generatorState, local, bvars, wvars>>
       ELSE /\ generatorState' = NewGeneratorState(filePath, pass1Repo[filePath])
            /\ local' = NewLocals(generatorState')
            /\ gpc' = "loop"
            /\ UNCHANGED generateError
  /\ UNCHANGED <<options, generateResult, pvars, cvars, dvars, bvars, wvars>>

\* One turn of the for loop of generateImpl, up to the call of
\* processCurrentLine if the line calls it.
LoopLine ==
  /\ gpc = "loop"
  /\ local.i < Len(generatorState.pass1)
  /\ Proceed(BeginLine(Context, options.preserveCodeReference, repo))

\* One turn of the while loop of processCurrentLine that finds a match.
ProcessToken ==
  /\ gpc = "processCurrentLine"
  /\ local.currentColumn < Len(CurrentLine)
  /\ NextMatch(Context, CurrentLine).found
  /\ Proceed(ProcessMatch(Context, CurrentLine))

\* The while loop of processCurrentLine ends; the rest of the turn of the
\* for loop.
ProcessLineEnd ==
  /\ gpc = "processCurrentLine"
  /\ ~(/\ local.currentColumn < Len(CurrentLine)
       /\ NextMatch(Context, CurrentLine).found)
  /\ Proceed(EndLine(Context))

\* generateImpl returns; generate checks the state and returns its result.
GenerateReturn ==
  /\ gpc = "loop"
  /\ local.i = Len(generatorState.pass1)
  /\ IF EndOfStreamError(generatorState) # NoError
     THEN /\ gpc' = "failed"
          /\ generateError' = EndOfStreamError(generatorState)
          /\ UNCHANGED <<generatorState, generateResult, bvars, wvars>>
     ELSE LET result == mergeAdjacentSegments(generatorState.result, 1, <<>>)
          IN  /\ generatorState' = [generatorState EXCEPT !.result = result]
              /\ generateResult' =
                   [code |-> CodeEmit(result),
                    params |-> generatorState.usedParams,
                    variables |-> generatorState.usedVariables,
                    hasMainFunction |-> generatorState.mainFunction = "ended"]
              /\ gpc' = "done"
              /\ UNCHANGED generateError
  /\ UNCHANGED <<options, local, pvars, cvars, dvars, bvars, wvars>>

GenerateNext ==
  \/ GenerateCall
  \/ LoopLine
  \/ ProcessToken
  \/ ProcessLineEnd
  \/ GenerateReturn

(***************************************************************************)
(* generateDirectory(repo, codeGenerator, options) on the repository parse *)
(* has returned.                                                           *)
(***************************************************************************)
\* What parse returns: {basePath: repo.basePath, templates: pass1Repo}.
ParseReturn == [basePath |-> basePath, templates |-> pass1Repo]

\* What generateDirectory returns for the repository parse has returned:
\* {basePath: repo.basePath, templates: result}.
DirectoryReturn == [basePath |-> ParseReturn.basePath, templates |-> directoryResult]

\* A turn of the for loop that sets the entry of the first key.
DirectorySetFirst ==
  /\ dpc = "generate" /\ gpc = "done"
  /\ directoryResult' = MapSet(directoryResult, order[1],
                               [filePath |-> order[1], generateResult |-> generateResult])
  /\ dIdx' = dIdx + 1
  /\ dpc' = "loop"
  /\ gpc' = "idle"
  /\ UNCHANGED <<options, generatorState, local, generateError, generateResult, pvars, cvars, bvars, wvars>>

\* generateDirectory is called: the result Map is created.
GenerateDirectoryCall ==
  /\ dpc = "idle" /\ gpc = "idle"
  /\ pc = "done"
  /\ dpc' = "loop" /\ dIdx' = 1 /\ directoryResult' = <<>>
  /\ UNCHANGED <<pvars, cvars, gvars, bvars, wvars>>

\* One turn of its for loop calls generate(filePath, repo, ...), filePath being
\* the next key of repo.templates.
DirectoryGenerate ==
  /\ dpc = "loop" /\ dIdx <= Len(order)
  /\ generatorState' = NewGeneratorState(order[dIdx], pass1Repo[order[dIdx]])
  /\ local' = NewLocals(generatorState')
  /\ gpc' = "loop"
  /\ dpc' = "generate"
  /\ UNCHANGED <<options, generateError, generateResult, dIdx, directoryResult, pvars, cvars, bvars, wvars>>

\* generate has returned: result.set(filePath, {filePath, generateResult}).
DirectorySet ==
  /\ dpc = "generate" /\ gpc = "done"
  /\ directoryResult' = MapSet(directoryResult, order[dIdx],
                               [filePath |-> order[dIdx], generateResult |-> generateResult])
  /\ dIdx' = dIdx + 1
  /\ dpc' = "loop"
  /\ gpc' = "idle"
  /\ UNCHANGED <<options, generatorState, local, generateError, generateResult, pvars, cvars, bvars, wvars>>

\* generate has thrown: generateDirectory catches nothing.
DirectoryThrow ==
  /\ dpc = "generate" /\ gpc = "failed"
  /\ dpc' = "failed"
  /\ UNCHANGED <<dIdx, directoryResult, pvars, cvars, gvars, bvars, wvars>>

\* The for loop has ended: the new repository is returned.
DirectoryDone ==
  /\ dpc = "loop" /\ dIdx > Len(order)
  /\ dpc' = "done"
  /\ UNCHANGED <<dIdx, directoryResult, pvars, cvars, gvars, bvars, wvars>>

DirectoryNext ==
  \/ Next
  \/ GenerateDirectoryCall
  \/ DirectoryGenerate
  \/ LoopLine
  \/ ProcessToken
  \/ ProcessLineEnd
  \/ GenerateReturn
  \/ DirectorySet
  \/ DirectoryThrow
  \/ DirectoryDone

\* parse has returned the repository of the one template A, whose lines are
\* free of comments, includes and macros and so are their own parse result;
\* generate is about to be called with one of the given options.
GenerateInit(templates, preserve) ==
  /\ \E raw \in templates :
       LET lines == [n \in 1..Len(raw) |-> ParsedLine(raw[n], KeyNames[1], n)]
       IN  /\ repo = (KeyNames[1] :> raw)
           /\ pass1Repo = (KeyNames[1] :> lines)
           /\ parseState = (KeyNames[1] :> [lines |-> lines, includeProcessed |-> TRUE])
           /\ processedLines = lines
           /\ macroLine = Len(raw)
  /\ order = <<KeyNames[1]>>
  /\ basePath = BasePaths[1]
  /\ pc = "done"
  /\ idx = 1
  /\ includeStack = <<>>
  /\ frames = <<>>
  /\ macros = <<>>
  /\ error = NoError
  /\ cRaw = <<>> /\ cOnce = NotRun /\ cTwice = NotRun /\ cStep = -1
  /\ options \in {[preserveCodeReference |-> p] : p \in preserve}
  /\ generatorState = NewGeneratorState(<<>>, <<>>)
  /\ local = NewLocals(generatorState)
  /\ gpc = "idle"
  /\ generateError = NoError
  /\ generateResult = NoResult
  /\ dpc = "idle" /\ dIdx = 0 /\ directoryResult = <<>>
  /\ WatcherCreated

\* The templates of 1 to maxLines lines of pool.
Templates(pool, maxLines) == UNION {[1..n -> pool] : n \in 1..maxLines}

\* The lines made of 1 to maxTokens pieces of pool.
TokenLines(pool, maxTokens) ==
  {Join(pieces, <<>>) : pieces \in UNION {[1..n -> pool] : n \in 1..maxTokens}}

\* Tokenizing: two directives that register patterns, in either order, and
\* one line of text in which several of the patterns match.
MaxScanTokens == 3

UseGet == <<"#", "u", "s", "e", " ", ".", "g", "e", "t">>
UseGetElementAt == <<"#", "u", "s", "e", " ", "g", "e", "t", "E", "l", "e", "m", "e", "n", "t", "A", "t">>
ParamX == <<"#", "p", "a", "r", "a", "m", " ", "x">>
ParamGetElementAt == <<"#", "p", "a", "r", "a", "m", " ", "g", "e", "t", "E", "l", "e", "m", "e", "n", "t", "A", "t">>
GetElementAtCall == <<"g", "e", "t", "E", "l", "e", "m", "e", "n", "t", "A", "t", "(">>

ScanDirectives == {UseGet, UseGetElementAt, ParamX, ParamGetElementAt}

ScanPieces == {<<"x">>, <<".", "g", "e", "t", "(">>, GetElementAtCall, <<" ">>}

ScanTemplates ==
  {<<d1, d2, line>> : d1 \in ScanDirectives, d2 \in ScanDirectives,
                      line \in TokenLines(ScanPieces, MaxScanTokens)}

TokensInit == GenerateInit(ScanTemplates, {FALSE})

SpecTokens == TokensInit /\ [][GenerateNext]_vars

\* Calls: the function getElementAt is registered and one line holds calls,
\* parentheses, commas and arguments.
MaxCallTokens == 4

CallPieces == {GetElementAtCall, <<"a">>, <<",">>, <<"(">>, <<")">>, <<" ">>}

\* outer(inner(a), b) and the calls with an empty argument position.
NestedCall == <<"g", "e", "t", "E", "l", "e", "m", "e", "n", "t", "A", "t", "(", "g", "e", "t", "E", "l", "e", "m", "e", "n", "t", "A", "t", "(", "a", ")", ",", " ", "b", ")">>
EmptyMiddle == <<"g", "e", "t", "E", "l", "e", "m", "e", "n", "t", "A", "t", "(", "a", ",", ",", "b", ")">>
BlankMiddle == <<"g", "e", "t", "E", "l", "e", "m", "e", "n", "t", "A", "t", "(", "a", ",", " ", ",", "b", ")">>
EmptyFirst == <<"g", "e", "t", "E", "l", "e", "m", "e", "n", "t", "A", "t", "(", ",", "a", ")">>
EmptyLast == <<"g", "e", "t", "E", "l", "e", "m", "e", "n", "t", "A", "t", "(", "a", ",", ")">>

CallExamples == {NestedCall, EmptyMiddle, BlankMiddle, EmptyFirst, EmptyLast}

CallTemplates ==
  {<<UseGetElementAt, line>> :
     line \in TokenLines(CallPieces, MaxCallTokens) \cup CallExamples}

CallsInit == GenerateInit(CallTemplates, {FALSE})

SpecCalls == CallsInit /\ [][GenerateNext]_vars

\* Blocks: lines that open, continue and close conditional blocks and lines
\* that change the parenthesis depth, in any order.
MaxBlockLines == 4

IfP == <<"#", "i", "f", " ", "P">>
ElifQ == <<"#", "e", "l", "i", "f", " ", "Q">>
ElseLine == <<"#", "e", "l", "s", "e">>
EndifLine == <<"#", "e", "n", "d", "i", "f">>

BlockLines == {IfP, ElifQ, ElseLine, EndifLine, <<"(">>, <<")">>}

\* #if P / f(1) / #elif Q / f(1) / #endif, and the same with one more "(" in
\* the branch of #if.
BalancedExample == <<IfP, <<"f", "(", "1", ")">>, ElifQ, <<"f", "(", "1", ")">>, EndifLine>>
UnbalancedExample == <<IfP, <<"f", "(", "(", "1", ")">>, ElifQ, <<"f", "(", "1", ")">>, EndifLine>>

\* Two branches that end one level deeper than the block opened, and a block
\* in a branch of another.
DeeperExample == <<IfP, <<"(">>, ElseLine, <<"(">>, EndifLine, <<")">>>>
NestedExample == <<IfP, IfP, <<"(">>, ElifQ, <<"(">>, EndifLine, ElseLine, <<"(">>, EndifLine>>

BlockExamples == {BalancedExample, UnbalancedExample, DeeperExample, NestedExample}

BlockTemplates == Templates(BlockLines, MaxBlockLines) \cup BlockExamples

BlocksInit == GenerateInit(BlockTemplates, {FALSE})

SpecBlocks == BlocksInit /\ [][GenerateNext]_vars

\* Conditions: the parameter x and the function getElementAt are registered;
\* one #if or #elif has a condition made of references to x, other text,
\* parentheses, commas and calls, at depth 0 or inside a parenthesis.
MaxCondTokens == 3

CondPieces == {<<"x">>, <<"a">>, <<"(">>, <<")">>, <<",">>, GetElementAtCall}

IfHead == <<"#", "i", "f", " ">>
ElifHead == <<"#", "e", "l", "i", "f", " ">>

ConditionTemplates ==
  {<<ParamX, UseGetElementAt>> \o before \o block :
     before \in {<<>>, <<<<"(">>>>},
     block \in {<<IfHead \o cond, EndifLine>> : cond \in TokenLines(CondPieces, MaxCondTokens)}
          \cup {<<IfP, ElifHead \o cond, EndifLine>> : cond \in TokenLines(CondPieces, MaxCondTokens)}}

ConditionsInit == GenerateInit(ConditionTemplates, {FALSE})

SpecConditions == ConditionsInit /\ [][GenerateNext]_vars

\* parse, then generate: one template of #define lines and of lines of text
\* that use the macro, and either option.
MaxPipelineLines == 3

PipelinePool ==
  {DefineLine(<<"X">>, <<"y">>), <<"X">>, <<"a">>, <<"(", "X", ")">>}

PipelineInit ==
  /\ \E raw \in Templates(PipelinePool, MaxPipelineLines) :
       /\ order = <<KeyNames[1]>>
       /\ repo = (KeyNames[1] :> raw)
  /\ basePath = BasePaths[1]
  /\ pc = "comments"
  /\ idx = 1
  /\ parseState = EmptyMap
  /\ includeStack = <<>>
  /\ frames = <<>>
  /\ pass1Repo = EmptyMap
  /\ macros = <<>>
  /\ macroLine = 0
  /\ processedLines = <<>>
  /\ error = NoError
  /\ cRaw = <<>> /\ cOnce = NotRun /\ cTwice = NotRun /\ cStep = -1
  /\ options \in {[preserveCodeReference |-> p] : p \in BOOLEAN}
  /\ generatorState = NewGeneratorState(<<>>, <<>>)
  /\ local = NewLocals(generatorState)
  /\ gpc = "idle"
  /\ generateError = NoError
  /\ generateResult = NoResult
  /\ dpc = "idle" /\ dIdx = 0 /\ directoryResult = <<>>
  /\ WatcherCreated

PipelineNext == Next \/ GenerateNext

SpecPipeline == PipelineInit /\ [][PipelineNext]_vars

\* Calls and blocks: getElementAt is registered; lines open a call and leave
\* it open, close it, or are conditional directives.
MaxCallBlockLines == 3

OpenCallLine == <<"g", "e", "t", "E", "l", "e", "m", "e", "n", "t", "A", "t", "(", "a", ",">>
CloseCallLine == <<"b", ")">>

CallBlockLines == {IfP, ElifQ, ElseLine, EndifLine, OpenCallLine, CloseCallLine, <<"a">>}

CallBlockTemplates ==
  {<<UseGetElementAt>> \o lines : lines \in Templates(CallBlockLines, MaxCallBlockLines)}

CallBlocksInit == GenerateInit(CallBlockTemplates, {FALSE})

SpecCallBlocks == CallBlocksInit /\ [][GenerateNext]_vars

\* Discovery: the parameter N is declared and the property .rank enabled, in
\* either order; one or two lines of text refer to N and to obj.rank, each any
\* number of times from none.
MaxRefTokens == 2

ParamN == <<"#", "p", "a", "r", "a", "m", " ", "N">>
UseRank == <<"#", "u", "s", "e", " ", ".", "r", "a", "n", "k">>
ObjRank == <<"o", "b", "j", ".", "r", "a", "n", "k">>

ReferenceLines ==
  {Join(tokens, <<" ">>) :
     tokens \in UNION {[1..n -> {<<"N">>, ObjRank, <<"a">>}] : n \in 1..MaxRefTokens}}

DiscoveryTemplates ==
  {directives \o body :
     directives \in {<<ParamN, UseRank>>, <<UseRank, ParamN>>},
     body \in UNION {[1..n -> ReferenceLines] : n \in 1..2}}

DiscoveryInit == GenerateInit(DiscoveryTemplates, {FALSE})

SpecDiscovery == DiscoveryInit /\ [][GenerateNext]_vars

\* Declarations: #param lines that declare N and M, once or again, one that
\* writes N with a type, and lines of text that refer to N or to M.
MaxParamLines == 3

ParamHead == <<"#", "p", "a", "r", "a", "m", " ">>

ParamLines ==
  {ParamHead \o words : words \in {<<"N">>, <<"M">>, <<"N", " ", "N">>, <<"N", " ", "M">>, <<"N", ":", "f", "3", "2">>}}
  \cup {<<"N">>, <<"M">>}

ParamsInit == GenerateInit(Templates(ParamLines, MaxParamLines), {FALSE})

SpecParams == ParamsInit /\ [][GenerateNext]_vars

\* Main function: getElementAt is registered; lines open the main function,
\* close a brace, open or close a parenthesis or a brace, put the marker in a
\* call or in a condition, or close a block.
MaxMainLines == 3

MainMarker == <<"$", "M", "A", "I", "N">>
OpenMainLine == MainMarker \o <<" ", "{">>

MainLines ==
  {OpenMainLine, <<"}">>, <<"{">>, <<"(">>, <<")">>,
   <<"g", "e", "t", "E", "l", "e", "m", "e", "n", "t", "A", "t", "(", "$", "M", "A", "I", "N", ",", "b", ")">>, <<"#", "i", "f", " ", "$", "M", "A", "I", "N">>, EndifLine}

MainTemplates ==
  {<<UseGetElementAt>> \o lines : lines \in Templates(MainLines, MaxMainLines)}

MainInit == GenerateInit(MainTemplates, {FALSE})

SpecMain == MainInit /\ [][GenerateNext]_vars

\* Blank lines: each line is empty, text with or without a token, or a
\* directive.
MaxBlankLines == 5

BlankLines == {<<>>, <<"a">>, <<"a", ",", "b">>, UseGetElementAt}

BlankInit == GenerateInit(Templates(BlankLines, MaxBlankLines), {FALSE})

SpecBlank == BlankInit /\ [][GenerateNext]_vars

\* Tracing: the first template has lines of text, empty lines and lines that
\* include the second, which has lines of text; or it is one template of ten
\* lines.  parse runs, then generate with preserveCodeReference.
MaxTraceLines == 3

TracePool == {IncludeLine(KeyNames[2]), <<"a">>, <<>>}

TraceRepos ==
  {<<raw, included>> : raw \in Templates(TracePool, MaxTraceLines),
                       included \in Templates({<<"b">>, <<"(", "c", ")">>}, MaxTraceLines - 1)}
  \cup {<<[n \in 1..10 |-> <<"a">>]>>}

TracingInit ==
  /\ \E r \in TraceRepos :
       /\ order = [i \in 1..Len(r) |-> KeyNames[i]]
       /\ repo = [key \in {KeyNames[i] : i \in 1..Len(r)} |->
                    r[CHOOSE i \in 1..Len(r) : KeyNames[i] = key]]
  /\ basePath = BasePaths[1]
  /\ pc = "comments"
  /\ idx = 1
  /\ parseState = EmptyMap
  /\ includeStack = <<>>
  /\ frames = <<>>
  /\ pass1Repo = EmptyMap
  /\ macros = <<>>
  /\ macroLine = 0
  /\ processedLines = <<>>
  /\ error = NoError
  /\ cRaw = <<>> /\ cOnce = NotRun /\ cTwice = NotRun /\ cStep = -1
  /\ options = [preserveCodeReference |-> TRUE]
  /\ generatorState = NewGeneratorState(<<>>, <<>>)
  /\ local = NewLocals(generatorState)
  /\ gpc = "idle"
  /\ generateError = NoError
  /\ generateResult = NoResult
  /\ dpc = "idle" /\ dIdx = 0 /\ directoryResult = <<>>
  /\ WatcherCreated

SpecTracing == TracingInit /\ [][PipelineNext]_vars

\* Directories: two templates; the first has lines of text, lines that
\* include the second, lines that open a comment no line closes and lines
\* that close a parenthesis no line opens; the second has the same but the
\* includes.  parse runs, then generateDirectory.
MaxDirectoryLines == 2

OpenComment == <<"/", "*">>

FaultyLines == {OpenComment, <<")">>}

DirectoryRepos ==
  {<<raw, included>> :
     raw \in Templates(FaultyLines \cup {<<"a">>, IncludeLine(KeyNames[2])}, MaxDirectoryLines),
     included \in Templates(FaultyLines \cup {<<"b">>}, MaxDirectoryLines)}

DirectoryInit ==
  /\ \E r \in DirectoryRepos :
       /\ order = [i \in 1..Len(r) |-> KeyNames[i]]
       /\ repo = [key \in {KeyNames[i] : i \in 1..Len(r)} |->
                    r[CHOOSE i \in 1..Len(r) : KeyNames[i] = key]]
  /\ basePath \in {BasePaths[i] : i \in 1..Len(BasePaths)}
  /\ pc = "comments" /\ idx = 1
  /\ parseState = EmptyMap
  /\ includeStack = <<>>
  /\ frames = <<>>
  /\ pass1Repo = EmptyMap
  /\ macros = <<>>
  /\ macroLine = 0
  /\ processedLines = <<>>
  /\ error = NoError
  /\ cRaw = <<>> /\ cOnce = NotRun /\ cTwice = NotRun /\ cStep = -1
  /\ GenerateIdle

SpecDirectory == DirectoryInit /\ [][DirectoryNext]_vars

\* Orders: repositories whose lines include the second or the third template,
\* define the macro X or use it, their templates iterated in any order.
\* parse runs, then generate for one of the templates.
MaxOrderLines == 3

OrderDefine == DefineLine(<<"X">>, <<"(", "y", ")">>)

OrderPool ==
  {IncludeLine(KeyNames[i]) : i \in 2..Len(KeyNames)} \cup {OrderDefine, <<"X">>}

\* The orders in which a Map can hold the first n keys.
Orders(n) ==
  {o \in [1..n -> {KeyNames[i] : i \in 1..n}] : \A i, j \in 1..n : o[i] = o[j] => i = j}

OrdersInit ==
  /\ \E r \in Repos(OrderPool, Len(KeyNames), MaxOrderLines) :
       /\ order \in Orders(Len(r))
       /\ repo = [key \in {KeyNames[i] : i \in 1..Len(r)} |->
                    r[CHOOSE i \in 1..Len(r) : KeyNames[i] = key]]
  /\ basePath = BasePaths[1]
  /\ pc = "comments"
  /\ idx = 1
  /\ parseState = EmptyMap
  /\ includeStack = <<>>
  /\ frames = <<>>
  /\ pass1Repo = EmptyMap
  /\ macros = <<>>
  /\ macroLine = 0
  /\ processedLines = <<>>
  /\ error = NoError
  /\ cRaw = <<>> /\ cOnce = NotRun /\ cTwice = NotRun /\ cStep = -1
  /\ GenerateIdle

SpecOrders == OrdersInit /\ [][PipelineNext]_vars

\* Locations: one or two templates whose lines include the second template,
\* define the macro X, close a parenthesis no line opens, or are text.  parse
\* runs, then generate for one of the templates.
MaxLocationLines == 3

LocationPool ==
  {IncludeLine(KeyNames[2]), DefineLine(<<"X">>, <<"y">>), <<")">>, <<"a">>}

LocationsInit == ParseInit(Repos(LocationPool, 2, MaxLocationLines))

SpecLocations == LocationsInit /\ [][PipelineNext]_vars

\* Cycles: three templates whose lines include any of the three templates,
\* themselves too, or are text.  parse is one synchronous call:
\* while a step of it is possible, one is taken.
MaxCycleLines == 3

CyclePool == {IncludeLine(KeyNames[i]) : i \in 1..Len(KeyNames)} \cup {<<"X">>}

CyclesInit == ParseInit(Splits(CyclePool, Len(KeyNames), MaxCycleLines))

SpecCycles == CyclesInit /\ [][Next]_vars /\ WF_vars(Next)


\* Additive tracing: x and getElementAt are registered; the lines open a
\* call and leave it open, close it, refer to x, close a parenthesis no line
\* opened, or are empty; generate runs with preserveCodeReference.
MaxAdditiveLines == 3

AdditiveLines == {OpenCallLine, CloseCallLine, <<"x">>, <<")">>, <<>>}

AdditiveTemplates ==
  {<<ParamX, UseGetElementAt>> \o lines : lines \in Templates(AdditiveLines, MaxAdditiveLines)}

AdditiveInit == GenerateInit(AdditiveTemplates, {TRUE})

SpecAdditive == AdditiveInit /\ [][GenerateNext]_vars


\* Expansion: one template whose #define lines give X the value $& or Y, and
\* Y the value X or 1, followed or preceded by uses of X and Y.
MaxExpansionLines == 3

MatchedText == <<"$", "&">>

ExpansionPool ==
  {DefineLine(<<"X">>, MatchedText), DefineLine(<<"X">>, <<"Y">>),
   DefineLine(<<"Y">>, <<"X">>), DefineLine(<<"Y">>, <<"1">>),
   <<"X">>, <<"Y">>}

ExpansionInit == ParseInit(Repos(ExpansionPool, 1, MaxExpansionLines))

SpecExpansion == ExpansionInit /\ [][Next]_vars

\* Registration: lines that declare the parameters N and M, lines that enable
\* getElementAt and .rank, and lines of text that are the word N or M.
MaxRegistrationLines == 4

ParamMN == <<"#", "p", "a", "r", "a", "m", " ", "M", " ", "N">>
UseRankGetElementAt == <<"#", "u", "s", "e", " ", ".", "r", "a", "n", "k", " ", "g", "e", "t", "E", "l", "e", "m", "e", "n", "t", "A", "t">>

RegistrationLines ==
  {ParamN, ParamMN, UseGetElementAt, UseRankGetElementAt, <<"N">>, <<"M">>}

RegistrationInit ==
  GenerateInit(Templates(RegistrationLines, MaxRegistrationLines), {FALSE})

SpecRegistration == RegistrationInit /\ [][GenerateNext]_vars

(***************************************************************************)
(* The Debouncer: a timer is an object of the event loop, named by the     *)
(* number of the setTimeout call that created it; its function runs when   *)
(* the event loop finds it set and its delay over.                         *)
(***************************************************************************)
\* debounce(fn) without the clearTimeout of the timer that is pending.
debounceKeepTimer ==
  /\ timers' = timers \cup {nextTimer + 1}
  /\ timeoutId' = nextTimer + 1
  /\ nextTimer' = nextTimer + 1
  /\ UNCHANGED <<invoked, cleared>>

\* debounce(fn): if (this.timeoutId) clearTimeout(this.timeoutId);
\* this.timeoutId = setTimeout(callback, this.delay).
debounce ==
  /\ cleared' = IF timeoutId # NoTimer THEN cleared \cup {timeoutId} ELSE cleared
  /\ timers' = (timers \ {timeoutId}) \cup {nextTimer + 1}
  /\ timeoutId' = nextTimer + 1
  /\ nextTimer' = nextTimer + 1
  /\ UNCHANGED invoked

\* cancel()
cancel ==
  IF timeoutId # NoTimer
  THEN /\ cleared' = cleared \cup {timeoutId}
       /\ timers' = timers \ {timeoutId}
       /\ timeoutId' = NoTimer
       /\ UNCHANGED <<nextTimer, invoked>>
  ELSE UNCHANGED bvars

\* isPending()
isPending == timeoutId # NoTimer

\* The callback given to setTimeout, for timer t: this.timeoutId = null,
\* then fn() is called.
TimerCallback(t) ==
  /\ t \in timers
  /\ timers' = timers \ {t}
  /\ timeoutId' = NoTimer
  /\ invoked' = Append(invoked, t)
  /\ UNCHANGED <<nextTimer, cleared>>

\* Most calls of debounce on one Debouncer.
MaxDebounces == 6

\* A Debouncer used by any caller: debounce with a function that touches
\* nothing else, cancel, and the timers of the event loop.
DebounceCall ==
  /\ nextTimer < MaxDebounces
  /\ debounce
  /\ UNCHANGED <<pvars, cvars, gvars, dvars, wvars>>

CancelCall ==
  /\ cancel
  /\ UNCHANGED <<pvars, cvars, gvars, dvars, wvars>>

TimerExpires ==
  /\ \E t \in timers : TimerCallback(t)
  /\ UNCHANGED <<pvars, cvars, gvars, dvars, wvars>>

DebouncerNext ==
  \/ DebounceCall
  \/ CancelCall
  \/ TimerExpires

(***************************************************************************)
(* The TemplateWatcher: start runs the initial build and sets the watchers *)
(* up, a change of a template file is debounced into runBuild, stop        *)
(* cancels the Debouncer and closes the watchers. build is a call that     *)
(* settles later, with a success status, a failure status or an exception. *)
(***************************************************************************)
\* runBuild without the test of isBuilding.
runBuildUnguarded ==
  /\ isBuilding' = TRUE
  /\ running' = running + 1
  /\ built' = changes

\* runBuild up to its await of build(...).
runBuild ==
  IF isBuilding
  THEN UNCHANGED <<isBuilding, running, built>>
  ELSE /\ isBuilding' = TRUE
       /\ running' = running + 1
       /\ built' = changes

\* Most changes of template files the watcher sees.
MaxChanges == 3

\* start(): the initial build is begun and awaited.
Start ==
  /\ wpc = "created"
  /\ wpc' = "initial"
  /\ runBuild
  /\ UNCHANGED <<outcome, changes, bvars, pvars, cvars, gvars, dvars>>

\* A call of build settles: the rest of runBuild with its finally block;
\* start, if it awaited this build, goes on to set up the watchers.
BuildSettles ==
  /\ running > 0
  /\ \E status \in {"success", "failure", "throw"} : outcome' = status
  /\ running' = running - 1
  /\ isBuilding' = FALSE
  /\ wpc' = IF wpc = "initial" THEN "watching" ELSE wpc
  /\ UNCHANGED <<changes, built, bvars, pvars, cvars, gvars, dvars>>

\* A watcher reports a change: handleFileChange(eventType, filePath).
HandleFileChange ==
  /\ wpc = "watching"
  /\ changes < MaxChanges
  /\ \E isTemplate \in BOOLEAN :
       IF isTemplate
       THEN /\ debounce
            /\ changes' = changes + 1
       ELSE UNCHANGED <<changes, bvars>>
  /\ UNCHANGED <<wpc, isBuilding, running, outcome, built, pvars, cvars, gvars, dvars>>

\* The timer of the Debouncer expires: its function calls runBuild.
TimerFires ==
  /\ \E t \in timers : TimerCallback(t)
  /\ runBuild
  /\ UNCHANGED <<wpc, outcome, changes, pvars, cvars, gvars, dvars>>

\* stop()
Stop ==
  /\ wpc = "watching"
  /\ wpc' = "stopped"
  /\ cancel
  /\ UNCHANGED <<isBuilding, running, outcome, changes, built, pvars, cvars, gvars, dvars>>

WatchNext ==
  \/ Start
  \/ BuildSettles
  \/ HandleFileChange
  \/ TimerFires
  \/ Stop

\* A watcher has been created for a directory with one template.
WatchInit == GenerateInit({<<<<"a">>>>}, {FALSE})

SpecDebouncer == WatchInit /\ [][DebouncerNext]_vars

\* The event loop runs a timer whose delay is over, and a call of build
\* settles.
SpecWatch ==
  WatchInit /\ [][WatchNext]_vars /\ WF_vars(TimerFires) /\ WF_vars(BuildSettles)

(***************************************************************************)
(* What "outside comments" means, found by searching for the comment       *)
(* markers instead of scanning character by character: a `//` or `/*`      *)
(* opens a comment at its first occurrence outside a comment, a block      *)
(* comment ends at the first `*/` after its opening marker.                *)
(***************************************************************************)
\* The first position at which the pair a b occurs in s, 0 if there is none.
FirstPair(s, a, b) ==
  LET P == {j \in 1..(Len(s) - 1) : s[j] = a /\ s[j + 1] = b}
  IN  IF P = {} THEN 0 ELSE CHOOSE j \in P : \A k \in P : j <= k

RECURSIVE OutsideComments(_, _)
OutsideComments(line, open) ==
  IF open
  THEN LET j == FirstPair(line, "*", "/")
       IN  IF j = 0 THEN [text |-> <<>>, open |-> TRUE]
           ELSE OutsideComments(SubSeq(line, j + 2, Len(line)), FALSE)
  ELSE LET jl == FirstPair(line, "/", "/")
           jb == FirstPair(line, "/", "*")
       IN  IF jl = 0 /\ jb = 0 THEN [text |-> line, open |-> FALSE]
           ELSE IF jb = 0 \/ (jl # 0 /\ jl < jb)
           THEN [text |-> SubSeq(line, 1, jl - 1), open |-> FALSE]
           ELSE LET r == OutsideComments(SubSeq(line, jb + 2, Len(line)), TRUE)
                IN  [text |-> SubSeq(line, 1, jb - 1) \o r.text, open |-> r.open]

\* Whether a block comment is open after the first n lines of raw.
RECURSIVE OpenAfter(_, _)
OpenAfter(raw, n) ==
  IF n = 0 THEN FALSE ELSE OutsideComments(raw[n], OpenAfter(raw, n - 1)).open

\* The characters of line n of raw that lie outside comments.
OutsideAt(raw, n) == OutsideComments(raw[n], OpenAfter(raw, n - 1)).text

IsBlank(s) == \A k \in 1..Len(s) : IsSpace(s[k])

\* No line holds a comment marker.
NoCommentMarkers(raw) ==
  \A n \in 1..Len(raw) :
    FirstPair(raw[n], "/", "/") = 0 /\ FirstPair(raw[n], "/", "*") = 0

\* The text consists of closed block comments (and white space) only.
OnlyBlockComments(raw) ==
  /\ \E n \in 1..Len(raw) : FirstPair(raw[n], "/", "*") # 0
  /\ \A n \in 1..Len(raw) : FirstPair(raw[n], "/", "/") = 0
  /\ \A n \in 1..Len(raw) : IsBlank(OutsideAt(raw, n))
  /\ ~OpenAfter(raw, Len(raw))

(***************************************************************************)
(* What a repository says, read off its raw lines: the directives that lie *)
(* outside comments, the include graph, and the include expansion of a     *)
(* template computed by plain recursion (no stack, no memo table).         *)
(***************************************************************************)
Keys == DOMAIN repo

\* Line n of template key without its comments, with its code reference.
RawLine(key, n) == ParsedLine(TrimEnd(OutsideAt(repo[key], n)), key, n)

\* A well-formed #include directive and the path it names.
IsIncludeDirective(line) == IncludeMatches(line) /\ IsQuoted(IncludeParam(line))

IncludeTarget(line) == IncludePath(IncludeParam(line))

\* The templates that key includes directly.
IncludedBy(key) ==
  {IncludeTarget(RawLine(key, n).line) :
     n \in {m \in 1..Len(repo[key]) : IsIncludeDirective(RawLine(key, m).line)}}

\* The templates reached from the set S by n include steps or fewer.
RECURSIVE ReachedFrom(_, _)
ReachedFrom(S, n) ==
  IF n = 0 THEN S
  ELSE ReachedFrom(S \cup UNION {IncludedBy(k) : k \in S \cap Keys}, n - 1)

\* Some template includes itself, directly or through other templates.
HasIncludeCycle ==
  \E key \in Keys : key \in ReachedFrom(IncludedBy(key), Cardinality(Keys))

\* Some directive names a template the repository does not have.
HasMissingInclude == \E key \in Keys : ~(IncludedBy(key) \subseteq Keys)

\* The include expansion of a template: its lines in order, each directive
\* replaced by the expansion of the template it names (depth bounds the
\* recursion; a repository without cycles never reaches it).
RECURSIVE Expanded(_, _)
RECURSIVE ExpandedFrom(_, _, _)
ExpandedFrom(key, n, depth) ==
  IF n > Len(repo[key]) THEN <<>>
  ELSE (IF IsIncludeDirective(RawLine(key, n).line)
        THEN Expanded(IncludeTarget(RawLine(key, n).line), depth - 1)
        ELSE <<RawLine(key, n)>>)
       \o ExpandedFrom(key, n + 1, depth)

Expanded(key, depth) ==
  IF depth = 0 \/ key \notin Keys THEN <<>> ELSE ExpandedFrom(key, 1, depth)

Expansion(key) == Expanded(key, Cardinality(Keys))

CodeReferences(lines) == [i \in 1..Len(lines) |-> lines[i].codeReference]

NoDuplicates(seq) == \A i, j \in 1..Len(seq) : i # j => seq[i] # seq[j]

\* parse has thrown while resolving includes / while expanding macros.
FailedResolving == pc = "failed" /\ includeStack # <<>>

FailedExpanding == pc = "failed" /\ includeStack = <<>> /\ DOMAIN pass1Repo = Keys

\* The template whose lines the resolver is going through, and the line at
\* which it stands.
ResolverFile == includeStack[Len(includeStack)]

ResolverAtLine ==
  /\ includeStack # <<>>
  /\ Len(frames) = Len(includeStack)
  /\ frames[Len(frames)].lineNumber < Len(parseState[ResolverFile].lines)

ResolverLineText ==
  parseState[ResolverFile].lines[frames[Len(frames)].lineNumber + 1].line

SiteOffset(key, n) == Len(ExpandedFrom(key, 1, Cardinality(Keys))) -
                      Len(ExpandedFrom(key, n, Cardinality(Keys)))

SiteLines(key, n) ==
  SubSeq(pass1Repo[key], SiteOffset(key, n) + 1, SiteOffset(key, n + 1))

DirectiveLines(key) ==
  {n \in 1..Len(repo[key]) : IsIncludeDirective(RawLine(key, n).line)}

\* C2 as stated: in the output of a successful parse, each #include line is
\* replaced by the include-expanded lines of the template it names.
C2_SplicedLinesInParseOutput ==
  (pc = "done") =>
    \A key \in Keys : \A n \in DirectiveLines(key) :
      SiteLines(key, n) = Expansion(IncludeTarget(RawLine(key, n).line))

\* The position of key in the iteration order.
OrderOf(key) == CHOOSE i \in 1..Len(order) : order[i] = key

\* The templates whose resolved lines the macro pass has not replaced yet.
Resolved ==
  IF pc \in {"include", "resolving"} THEN DOMAIN pass1Repo
  ELSE IF pc \in {"macro", "expanding"} THEN {k \in Keys : OrderOf(k) >= idx}
  ELSE {}

\* C2 amended: the stream that include resolution produces for a template
\* (before macro substitution) is the template's lines in order with each
\* #include line replaced, in place, by the include-expanded lines of the
\* template it names; no #include directive is left in it, and a template
\* included at several places gives the same lines at each.  The output of a
\* successful parse has the same number of lines with the same code
\* references, their text being further rewritten by the macro pass.
C2_SplicedLinesAfterResolution ==
  /\ \A key \in DOMAIN parseState :
       parseState[key].includeProcessed =>
         /\ parseState[key].lines = Expansion(key)
         /\ \A i \in 1..Len(parseState[key].lines) :
              ~IncludeMatches(parseState[key].lines[i].line)
  /\ \A key \in Resolved :
       /\ pass1Repo[key] = Expansion(key)
       /\ \A n \in DirectiveLines(key) :
            SiteLines(key, n) = Expansion(IncludeTarget(RawLine(key, n).line))
  /\ (pc = "done") =>
       \A key \in Keys :
         CodeReferences(pass1Repo[key]) = CodeReferences(Expansion(key))

\* A includes B at two places and B includes C; include resolution is over.
C2_Witness ==
  /\ pc = "macro" /\ idx = 1
  /\ Cardinality(Keys) = 3
  /\ repo[KeyNames[1]] = <<IncludeLine(KeyNames[2]), IncludeLine(KeyNames[2])>>
  /\ repo[KeyNames[2]] = <<IncludeLine(KeyNames[3])>>
  /\ pass1Repo[KeyNames[1]] = pass1Repo[KeyNames[3]] \o pass1Repo[KeyNames[3]]

\* C3: every line of the output of a successful parse carries the code
\* reference of a line of a template of the repository, and the references of
\* a template's output are, in order, those of the physical lines that its
\* include expansion is made of; until the macro pass rewrites it, a line's
\* text is the text of that physical line without its comments.
C3_CodeReferencePreserved ==
  /\ (pc = "done") =>
       \A key \in Keys :
         /\ \A i \in 1..Len(pass1Repo[key]) :
              LET ref == pass1Repo[key][i].codeReference
              IN  /\ ref.filePath \in Keys
                  /\ ref.lineNumber \in 1..Len(repo[ref.filePath])
         /\ CodeReferences(pass1Repo[key]) = CodeReferences(Expansion(key))
  /\ \A key \in Resolved :
       \A i \in 1..Len(pass1Repo[key]) :
         LET ref == pass1Repo[key][i].codeReference
         IN  ref.filePath \in Keys /\ pass1Repo[key][i] = RawLine(ref.filePath, ref.lineNumber)

\* A defines X and includes B, B includes C, C uses X: in A's output the use
\* of X is rewritten, stands second and refers to line 1 of C.
C3_Witness ==
  /\ pc = "done"
  /\ Cardinality(Keys) = 3
  /\ Len(pass1Repo[KeyNames[1]]) = 2
  /\ pass1Repo[KeyNames[1]][2] = ParsedLine(<<"y">>, KeyNames[3], 1)
  /\ repo[KeyNames[3]] = <<(<<"X">>)>>

(***************************************************************************)
(* Claims about the order of the passes (under SpecPasses).                *)
(***************************************************************************)
\* The lines of a template without their comments.
RawLines(key) == [n \in 1..Len(repo[key]) |-> RawLine(key, n)]

\* Some line of the repository is, outside comments, an #include or a
\* #define directive.
HasLiveDirective ==
  \E key \in Keys : \E n \in 1..Len(repo[key]) :
    IncludeMatches(RawLine(key, n).line) \/ LooksLikeDefine(RawLine(key, n).line)

\* The line of the stream at which the macro pass stands.
MacroAtLine == pc \in {"expanding", "failed"} /\ includeStack = <<>>
               /\ DOMAIN pass1Repo = Keys /\ macroLine < Len(pass1Repo[order[idx]])

MacroLineRef == pass1Repo[order[idx]][macroLine + 1].codeReference

\* C4: include resolution starts from lines whose comments are gone; the
\* resolver enters a template only for an #include that stands outside
\* comments in the template that includes it, and an error of include
\* resolution or of the macro pass is thrown only at a line that is a
\* directive outside comments; so a repository whose directives all stand
\* inside comments is parsed without any such error, and its output is its
\* lines without their comments.
C4_CommentsStrippedFirst ==
  /\ (pc = "include" /\ idx = 1) =>
       \A key \in Keys :
         parseState[key] = [lines |-> RawLines(key), includeProcessed |-> FALSE]
  /\ \A i \in 2..Len(includeStack) : includeStack[i] \in IncludedBy(includeStack[i - 1])
  /\ FailedResolving =>
       /\ error.operation \in {"include-not-found", "include-circular", "syntax-error"}
       /\ error.filePath \in Keys
       /\ error.lineNumber \in 1..Len(repo[error.filePath])
       /\ IncludeMatches(RawLine(error.filePath, error.lineNumber).line)
  /\ FailedExpanding =>
       /\ MacroAtLine
       /\ LooksLikeDefine(RawLine(MacroLineRef.filePath, MacroLineRef.lineNumber).line)
  /\ (pc \in {"done", "failed"} /\ ~HasLiveDirective) =>
       \/ pc = "failed" /\ error.operation = "comment-removal"
       \/ pc = "done" /\ \A key \in Keys : pass1Repo[key] = RawLines(key)

\* A is a block comment of three lines whose second line is an #include of
\* B, which does not exist: parse succeeds and A's output is three empty lines.
C4_Witness ==
  /\ pc = "done"
  /\ Keys = {KeyNames[1]}
  /\ repo[KeyNames[1]] = <<BlockOpen, IncludeLine(KeyNames[2]), BlockClose>>
  /\ pass1Repo[KeyNames[1]] = [n \in 1..3 |-> ParsedLine(<<>>, KeyNames[1], n)]

(***************************************************************************)
(* Claims about the macro pass on include-expanded streams (under Spec).   *)
(***************************************************************************)
\* A #define line that has a name and a value.
WellFormedDefine(line) ==
  LooksLikeDefine(line) /\ DefineMatch(line).matched /\ Trim(DefineMatch(line).value) # <<>>

\* The positions of a stream that hold a #define of a name that an earlier
\* #define of the stream has.
RepeatedDefines(stream) ==
  {j \in 1..Len(stream) :
     /\ WellFormedDefine(stream[j].line)
     /\ \E i \in 1..(j - 1) :
          /\ WellFormedDefine(stream[i].line)
          /\ DefineMatch(stream[i].line).name = DefineMatch(stream[j].line).name}

Least(S) == CHOOSE n \in S : \A m \in S : n <= m

\* The positions in the iteration order of the templates whose stream
\* defines a name twice.
WithRepeatedDefine == {i \in 1..Len(order) : RepeatedDefines(Expansion(order[i])) # {}}

\* C10: when the macro pass comes to a #define whose name the macro table
\* already has, parse throws the duplicate-definition error ("define-expansion")
\* for that line of the stream; parse never succeeds on a repository in which
\* the include-expanded stream of a template defines a name twice; and once
\* include resolution has succeeded on such a repository, parse fails at the
\* second #define of the first such template, also when both are one line of
\* an included file spliced in at two include sites.
C10_DuplicateMacroRejected ==
  /\ (FailedExpanding /\ macroLine < Len(pass1Repo[order[idx]])) =>
       LET line == pass1Repo[order[idx]][macroLine + 1].line
       IN  (WellFormedDefine(line) /\ HasMacro(macros, DefineMatch(line).name)) =>
             error = ParseError("duplicate macro", "define-expansion",
                                order[idx], macroLine + 1)
  /\ ((pc = "done" \/ FailedExpanding) /\ WithRepeatedDefine # {}) =>
       /\ pc = "failed"
       /\ error = ParseError("duplicate macro", "define-expansion",
                             order[Least(WithRepeatedDefine)],
                             Least(RepeatedDefines(
                                     Expansion(order[Least(WithRepeatedDefine)]))))

\* A includes B twice and B is one #define: the stream of A holds that line
\* of B twice, and parse fails at the second.
C10_Witness ==
  /\ FailedExpanding
  /\ repo[KeyNames[1]] = <<IncludeLine(KeyNames[2]), IncludeLine(KeyNames[2])>>
  /\ repo[KeyNames[2]] = <<DefineLine(<<"X">>, <<"y">>)>>
  /\ Len(pass1Repo[KeyNames[1]]) = 2
  /\ pass1Repo[KeyNames[1]][1] = pass1Repo[KeyNames[1]][2]
  /\ pass1Repo[KeyNames[1]][2].codeReference = [filePath |-> KeyNames[2], lineNumber |-> 1]
  /\ error = ParseError("duplicate macro", "define-expansion", KeyNames[1], 2)

(***************************************************************************)
(* Claims about macro definitions and substitution (under SpecMacro).      *)
(***************************************************************************)
\* s with each whole-word occurrence of name replaced by the characters of
\* value.
RECURSIVE ReplaceWordLiterally(_, _, _, _)
ReplaceWordLiterally(s, name, value, p) ==
  IF p > Len(s) THEN <<>>
  ELSE IF WordAt(s, name, p)
  THEN value \o ReplaceWordLiterally(s, name, value, p + Len(name))
  ELSE <<s[p]>> \o ReplaceWordLiterally(s, name, value, p + 1)

RECURSIVE SubstituteLiterally(_, _, _)
SubstituteLiterally(table, k, line) ==
  IF k > Len(table) THEN line
  ELSE SubstituteLiterally(table, k + 1,
                           ReplaceWordLiterally(line, table[k].name, table[k].value, 1))

\* The stream the macro pass of the current template goes through.
MacroStream == Expansion(order[idx])

\* C8 as stated: a line that is no #define comes out of the macro pass with
\* each whole-word occurrence of the name of each macro defined before it
\* replaced by the value the macro table holds for it, nothing else changed.
C8_WholeWordSubstitution ==
  (pc = "expanding" /\ macroLine >= 1) =>
    LET line == MacroStream[macroLine].line
    IN  ~LooksLikeDefine(line) =>
          processedLines[macroLine].line = SubstituteLiterally(macros, 1, line)

\* The positions among the first m lines of a stream that hold a #define.
Defines(stream, m) == {n \in 1..m : WellFormedDefine(stream[n].line)}

DefinedName(stream, n) == DefineMatch(stream[n].line).name

DefinedValue(stream, n) == Trim(DefineMatch(stream[n].line).value)

\* The names, defined among the first m lines, that occur in the values
\* written for the names in S among these lines.
ReferredTo(stream, m, S) ==
  {DefinedName(stream, j) : j \in {n \in Defines(stream, m) :
     \E i \in Defines(stream, m) :
       /\ DefinedName(stream, i) \in S
       /\ ContainsWord(DefinedValue(stream, i), DefinedName(stream, n))}}

RECURSIVE ReferredToWithin(_, _, _, _)
ReferredToWithin(stream, m, S, steps) ==
  IF steps = 0 THEN S
  ELSE ReferredToWithin(stream, m, S \cup ReferredTo(stream, m, S), steps - 1)

\* Among the first m lines, the value written for a name refers to the name
\* itself, directly or through the values written for other names.
HasMacroCycle(stream, m) ==
  \E n \in Defines(stream, m) :
    DefinedName(stream, n) \in
      ReferredToWithin(stream, m, ReferredTo(stream, m, {DefinedName(stream, n)}), m)

C5_LinesKeptOutsideComments ==
  (cStep >= 1 /\ cOnce.ok) =>
    /\ Len(cOnce.lines) = Len(cRaw)
    /\ \A n \in 1..Len(cRaw) :
         /\ cOnce.lines[n] = TrimEnd(OutsideAt(cRaw, n))
         /\ IsBlank(OutsideAt(cRaw, n)) => cOnce.lines[n] = <<>>

\* A block comment opened on one line and closed on the next, with text kept
\* after it.
C5_Witness ==
  /\ cStep = 1 /\ cOnce.ok
  /\ Len(cRaw) = 2
  /\ OpenAfter(cRaw, 1)
  /\ cOnce.lines[1] = <<>> /\ cOnce.lines[2] = <<"a">>

\* C6: parseComments throws, with operation "comment-removal", exactly when
\* the last line ends inside a block comment.
C6_UnterminatedComment ==
  (cStep >= 1) =>
    /\ OpenAfter(cRaw, Len(cRaw)) =>
         ~cOnce.ok /\ cOnce.error.operation = "comment-removal"
    /\ ~OpenAfter(cRaw, Len(cRaw)) => cOnce.ok /\ cOnce.error = NoError

\* A block comment opened on the first of three lines and never closed.
C6_Witness ==
  /\ cStep = 1 /\ ~cOnce.ok
  /\ Len(cRaw) = 3
  /\ OpenAfter(cRaw, 1)
  /\ cOnce.error = ParseError("unterminated comment", "comment-removal", CFile, 0)

\* C7 as stated: on text without comments the stripper is the identity.
C7_IdentityOnCommentFree ==
  (cStep >= 1 /\ NoCommentMarkers(cRaw)) => cOnce.ok /\ cOnce.lines = cRaw

\* C7 amended: on text without comments the stripper returns each line
\* without its trailing white space; stripping twice equals stripping once;
\* text made of block comments only strips to empty lines of the same count.
C7_IdempotentUpToTrailingSpace ==
  /\ (cStep >= 1 /\ NoCommentMarkers(cRaw)) =>
       /\ cOnce.ok
       /\ cOnce.lines = [n \in 1..Len(cRaw) |-> TrimEnd(cRaw[n])]
  /\ (cStep = 2) => cTwice = cOnce
  /\ (cStep >= 1 /\ OnlyBlockComments(cRaw)) =>
       /\ cOnce.ok
       /\ cOnce.lines = [n \in 1..Len(cRaw) |-> <<>>]

\* Text without comments that has a line ending in white space, stripped
\* twice: the first pass changes it, the second changes nothing.
C7_Witness ==
  /\ cStep = 2
  /\ NoCommentMarkers(cRaw)
  /\ \E n \in 1..Len(cRaw) : cRaw[n] # TrimEnd(cRaw[n]) /\ ~IsBlank(cRaw[n])
  /\ cOnce.lines # cRaw
  /\ cTwice = cOnce


(***************************************************************************)
(* C12                                                                     *)
(***************************************************************************)
\* The active patterns whose regular expression matches somewhere in content.
MatchingPatterns(content, patterns) ==
  {k \in 1..Len(patterns) : Exec(patterns[k], content, 1).found}

\* The start offset of the leftmost match of the k-th pattern.
StartOffset(content, patterns, k) == Exec(patterns[k], content, 1).index

\* next is the match that starts earliest, of the pattern registered first
\* among those that start there, and no match only if no pattern matches.
EarliestFirstRegistered(content, patterns, next) ==
  /\ next.found <=> MatchingPatterns(content, patterns) # {}
  /\ next.found =>
       /\ next.pattern \in MatchingPatterns(content, patterns)
       /\ next.index = StartOffset(content, patterns, next.pattern)
       /\ \A k \in MatchingPatterns(content, patterns) :
            /\ StartOffset(content, patterns, k) >= next.index
            /\ StartOffset(content, patterns, k) = next.index => k >= next.pattern

\* C12: at every scan position matchNextPattern returns the match with the
\* smallest start offset among the active patterns that match the rest of
\* the line, the pattern registered first winning a tie, and returns null
\* only when no active pattern matches.
C12_EarliestMatchFirstRegistered ==
  gpc = "processCurrentLine" =>
    EarliestFirstRegistered(RestLine(Context, CurrentLine), generatorState.patterns,
                            NextMatch(Context, CurrentLine))

\* The parameter x was registered before the method .get, both match at the
\* start of x.get( and the token taken was the parameter.
C12_Witness ==
  /\ gpc = "processCurrentLine"
  /\ StartsWith(CurrentLine, <<"x", ".", "g", "e", "t", "(">>)
  /\ \E j \in 1..Len(generatorState.patterns), k \in 1..Len(generatorState.patterns) :
       /\ j < k
       /\ generatorState.patterns[j] = createParamPattern(<<"x">>)
       /\ generatorState.patterns[k].type = "method"
  /\ local.currentColumn = 1
  /\ <<"x">> \in DOMAIN generatorState.usedParams
  /\ generatorState.currentFunctionCall = <<>>


(***************************************************************************)
(* C13                                                                     *)
(***************************************************************************)
\* The line of text of the templates of SpecCalls.
CallLine == repo[KeyNames[1]][2]

\* An argument as the code generator receives it.
Arg(code) == [type |-> "auto", code |-> code]

\* The rendering of getElementAt(...) with the given arguments.
Rendered(args) == CodeFunction(<<"G", "e", "t", "E", "l", "e", "m", "e", "n", "t", "A", "t">>, args)

\* What outer(inner(a), b) gives: one expression, outer with the two
\* arguments inner(a), itself an expression, and b.
NestedCallResult ==
  <<Segment("expression",
            Rendered(<<Arg(<<Segment("expression", Rendered(<<Arg(<<Segment("code", <<"a">>)>>)>>))>>),
                       Arg(<<Segment("code", <<"b">>)>>)>>)),
    Segment("code", <<"\n">>)>>

\* The number of occurrences of ch in s.
RECURSIVE Count(_, _)
Count(s, ch) ==
  IF s = <<>> THEN 0 ELSE (IF s[1] = ch THEN 1 ELSE 0) + Count(Tail(s), ch)

\* The parenthesis depth of the text of the line scanned so far.
DepthScanned ==
  Count(SubSeq(CurrentLine, 1, local.currentColumn), "(")
  - Count(SubSeq(CurrentLine, 1, local.currentColumn), ")")

\* The while loop of processCurrentLine is about to take the token t.
AtToken(t) ==
  /\ gpc = "processCurrentLine"
  /\ local.currentColumn < Len(CurrentLine)
  /\ NextMatch(Context, CurrentLine).found
  /\ SubSeq(RestLine(Context, CurrentLine),
            NextMatch(Context, CurrentLine).index + 1,
            NextMatch(Context, CurrentLine).index + NextMatch(Context, CurrentLine).length) = t

\* The text before the next token, as the segments it is output in.
TextBeforeToken ==
  IF NextMatch(Context, CurrentLine).index > 0
  THEN <<Segment("code", SubSeq(RestLine(Context, CurrentLine), 1,
                                NextMatch(Context, CurrentLine).index))>>
  ELSE <<>>

Calls == generatorState.currentFunctionCall

\* The comma about to be taken is at the depth of the arguments of the
\* innermost open call: one more than the depth at which the call opened.
AtArgumentDepth ==
  /\ Calls # <<>>
  /\ DepthScanned + Count(SubSeq(RestLine(Context, CurrentLine), 1,
                                 NextMatch(Context, CurrentLine).index), "(")
                  - Count(SubSeq(RestLine(Context, CurrentLine), 1,
                                 NextMatch(Context, CurrentLine).index), ")")
       = Calls[Len(Calls)].parenthesesState + 1

\* The comma closes the argument of the innermost call and of no other.
ArgumentClosed ==
  /\ Len(Calls') = Len(Calls)
  /\ \A k \in 1..(Len(Calls) - 1) : Calls'[k] = Calls[k]
  /\ Calls'[Len(Calls)].params =
       Append(Calls[Len(Calls)].params, Calls[Len(Calls)].currentParam \o TextBeforeToken)
  /\ Calls'[Len(Calls)].currentParam = <<>>
  /\ generatorState'.result = generatorState.result

\* The comma is literal text: no call gets a new argument.
CommaLiteral ==
  /\ Len(Calls') = Len(Calls)
  /\ \A k \in 1..Len(Calls) : Calls'[k].params = Calls[k].params
  /\ IF Calls = <<>>
     THEN generatorState'.result =
            generatorState.result \o TextBeforeToken \o <<Segment("code", <<",">>)>>
     ELSE /\ Calls'[Len(Calls)].currentParam =
               Calls[Len(Calls)].currentParam \o TextBeforeToken \o <<Segment("code", <<",">>)>>
          /\ generatorState'.result = generatorState.result

\* A comma is taken.
CommaStep ==
  /\ AtToken(<<",">>)
  /\ local'.currentColumn > local.currentColumn
  /\ IF AtArgumentDepth
     THEN gpc' = "failed" \/ ArgumentClosed
     ELSE gpc' # "failed" /\ CommaLiteral

\* The depth counter is the depth of the text scanned.
DepthCounted ==
  /\ gpc = "processCurrentLine" => local.currentParenthesesState = DepthScanned
  /\ gpc \in {"loop", "done"} /\ local.i = 2 =>
       local.currentParenthesesState = Count(CallLine, "(") - Count(CallLine, ")")

\* outer(inner(a), b) compiles to outer with two arguments.
NestedCallCompiles ==
  CallLine = NestedCall =>
    /\ gpc = "failed" => generateError.operation = "generator-not-found"
    /\ gpc = "done" => generatorState.result = NestedCallResult

\* C13: outer(inner(a), b) gives outer exactly two arguments, the rendered
\* inner call and b; a comma separates arguments of the innermost open call
\* only when the parenthesis depth is exactly one more than the depth
\* recorded when that call opened, and a comma inside a nested call or
\* inside plain parentheses within an argument splits no call's arguments.
C13_NestedCallArguments ==
  /\ [](NestedCallCompiles /\ DepthCounted)
  /\ [][AtToken(<<",">>) => CommaStep]_vars

\* outer(inner(a), b) has been compiled.
C13_Witness ==
  /\ CallLine = NestedCall
  /\ gpc = "done"
  /\ generatorState.result = NestedCallResult


(***************************************************************************)
(* C14                                                                     *)
(***************************************************************************)
\* The example calls in which an argument position is empty.
EmptyArgumentCalls == {EmptyMiddle, EmptyFirst, EmptyLast, BlankMiddle}

\* generate has been called for the template of the repository.
Generating == gpc # "idle" /\ generateError.operation # "generator-not-found"

\* C14: a registered call with an argument-separating comma and an argument
\* position that is empty after trimming -- f(a,,b), f(,a), f(a,), f(a, ,b) --
\* makes generate fail with a parameter-missing error, and no call is
\* rendered with an empty argument.
C14_EmptyArgumentRejected ==
  Generating /\ CallLine \in EmptyArgumentCalls =>
    /\ gpc # "done"
    /\ gpc = "failed" => generateError.operation = "parameter-missing"
    /\ \A k \in 1..Len(generatorState.result) :
         generatorState.result[k].type # "expression"


(***************************************************************************)
(* C15                                                                     *)
(***************************************************************************)
\* C15: generate succeeds only if the parenthesis depth and the bracket
\* depth reached after the last line are zero; a plain "(" that belongs to
\* no registered call and is never closed makes it fail.
C15_BalancedAtEndOfTemplate ==
  Generating /\ gpc = "done" =>
    /\ local.currentParenthesesState = 0
    /\ local.currentBracketState = 0
    /\ Count(CallLine, "(") = Count(CallLine, ")")

(***************************************************************************)
(* Conditional blocks, read from the text of the template: the lines are   *)
(* walked once with a stack of the open blocks, each holding the depth at  *)
(* which its #if stood and the depths at which its finished branches       *)
(* ended.                                                                  *)
(***************************************************************************)
\* The template of the repository.
BlockTemplate == repo[KeyNames[1]]

\* What a line is for the conditional blocks.
LineKind(line) ==
  IF StartsWith(line, <<"#", "i", "f", " ">>) THEN "if"
  ELSE IF StartsWith(line, <<"#", "e", "l", "i", "f", " ">>) THEN "elif"
  ELSE IF StartsWith(line, <<"#", "e", "l", "s", "e">>) THEN "else"
  ELSE IF StartsWith(line, <<"#", "e", "n", "d", "i", "f">>) THEN "endif"
  ELSE "text"

\* No line read: no block open, depth 0.
NoBlocks == [stack |-> <<>>, depth |-> 0, nested |-> TRUE, balanced |-> TRUE]

\* A branch of the innermost block ends and the next one starts.
NextBranch(st, kind) ==
  IF st.stack = <<>> \/ st.stack[Len(st.stack)].kind \notin {"if", "elif"}
  THEN [st EXCEPT !.nested = FALSE]
  ELSE [st EXCEPT !.stack[Len(st.stack)].kind = kind,
                  !.stack[Len(st.stack)].ends = Append(@, st.depth),
                  !.depth = st.stack[Len(st.stack)].open]

\* The innermost block ends: its branches are balanced when all of them
\* ended at one depth.
EndBlock(st) ==
  IF st.stack = <<>>
  THEN [st EXCEPT !.nested = FALSE]
  ELSE [st EXCEPT !.stack = SubSeq(@, 1, Len(@) - 1),
                  !.balanced = @ /\ \A k \in 1..Len(st.stack[Len(st.stack)].ends) :
                                      st.stack[Len(st.stack)].ends[k] = st.depth]

\* One line read.
WalkLine(st, line) ==
  IF ~st.nested THEN st
  ELSE IF LineKind(line) = "if"
  THEN [st EXCEPT !.stack = Append(@, [kind |-> "if", open |-> st.depth, ends |-> <<>>])]
  ELSE IF LineKind(line) \in {"elif", "else"} THEN NextBranch(st, LineKind(line))
  ELSE IF LineKind(line) = "endif" THEN EndBlock(st)
  ELSE [st EXCEPT !.depth = @ + Count(line, "(") - Count(line, ")")]

\* The first n lines read.
RECURSIVE WalkBlocks(_, _)
WalkBlocks(lines, n) ==
  IF n = 0 THEN NoBlocks ELSE WalkLine(WalkBlocks(lines, n - 1), lines[n])

\* The last depth recorded for a block, or none.
LastEnd(block) == IF block.ends = <<>> THEN NullState ELSE block.ends[Len(block.ends)]

\* The stack and the counters of the generator are those of the text read.
BlocksAgree(st) ==
  /\ st.nested
  /\ local.currentParenthesesState = st.depth
  /\ local.currentBracketState = 0
  /\ Len(generatorState.preprocessIfStack) = Len(st.stack)
  /\ \A k \in 1..Len(st.stack) :
       /\ generatorState.preprocessIfStack[k].type = st.stack[k].kind
       /\ generatorState.preprocessIfStack[k].initialParenthesesState = st.stack[k].open
       /\ generatorState.preprocessIfStack[k].previousBlockParenthesesState = LastEnd(st.stack[k])
       /\ generatorState.preprocessIfStack[k].initialBracketState = 0
       /\ generatorState.preprocessIfStack[k].previousBlockBracketState \in {NullState, 0}

\* The for loop stands before a line of the given kinds.
BeforeLine(kinds) ==
  /\ gpc = "loop"
  /\ local.i < Len(generatorState.pass1)
  /\ LineKind(CurrentLine) \in kinds

\* The for loop stands before an #elif, #else or #endif of an open block whose
\* previous branch ended at another depth than the one reached.
DepthDiffers ==
  /\ BeforeLine({"elif", "else", "endif"})
  /\ Len(generatorState.preprocessIfStack) > 0
  /\ LineKind(CurrentLine) # "endif" =>
       generatorState.preprocessIfStack[Len(generatorState.preprocessIfStack)].type \in {"if", "elif"}
  /\ generatorState.preprocessIfStack[Len(generatorState.preprocessIfStack)].previousBlockParenthesesState
       \notin {NullState, local.currentParenthesesState}

\* generate fails at the line with the mismatch of the depths expected and got.
MismatchRaised ==
  /\ gpc' = "failed"
  /\ generateError'.operation = "code-generation-failed"
  /\ generateError'.lineNumber = local.i + 1
  /\ generateError'.message =
       MismatchMessage("Parentheses", local.i + 1,
         generatorState.preprocessIfStack[Len(generatorState.preprocessIfStack)].previousBlockParenthesesState,
         local.currentParenthesesState)

MismatchAtLine(n) ==
  /\ gpc = "failed"
  /\ generateError.operation = "code-generation-failed"
  /\ generateError.lineNumber = n
  /\ generateError.message = MismatchMessage("Parentheses", n, 1, 0)

\* The balanced example compiles.
BalancedCompiles ==
  Generating /\ BlockTemplate = BalancedExample /\ local.i = Len(BlockTemplate) =>
    gpc \in {"loop", "done"}

\* C17 as stated: #if P / f(1) / #elif Q / f(1) / #endif compiles; with one
\* more "(" in the branch of #if, generate fails with a depth mismatch that
\* is raised when the #elif line, line 3, is processed and that reports
\* line 3.
C17_MismatchAtElif ==
  /\ BalancedCompiles
  /\ Generating /\ BlockTemplate = UnbalancedExample =>
       /\ gpc # "done"
       /\ local.i <= 2
       /\ gpc = "failed" => MismatchAtLine(3)

\* C17, amended: the balanced example compiles; with one more "(" in the
\* branch of #if, the #elif line is accepted, the depth 1 of the branch
\* being recorded, and generate fails with a depth mismatch, expected 1, got
\* 0, that is raised when the #endif line, line 5, is processed and that
\* reports line 5.
C17_MismatchAtEndif ==
  /\ BalancedCompiles
  /\ Generating /\ BlockTemplate = UnbalancedExample =>
       /\ gpc # "done"
       /\ local.i <= 4
       /\ gpc = "failed" => MismatchAtLine(5) /\ local.i = 4
       /\ gpc = "loop" /\ local.i \in {3, 4} =>
            generatorState.preprocessIfStack[1].previousBlockParenthesesState = 1

\* The unbalanced example has failed at its #endif line.
C17_Witness == BlockTemplate = UnbalancedExample /\ MismatchAtLine(5)

\* The lines of the template that generateImpl has taken without failing.
LinesTaken == IF gpc = "processCurrentLine" THEN local.i + 1 ELSE local.i

\* The kinds of the latest branches of the open blocks, outermost first.
OpenBranches(stack) == [k \in 1..Len(stack) |-> stack[k].kind]

\* The same, of the stack of the generator.
OpenTypes == [k \in 1..Len(generatorState.preprocessIfStack) |->
                generatorState.preprocessIfStack[k].type]

\* The lines taken are well nested, and the stack of the generator holds the
\* blocks they leave open.
TakenWellNested ==
  Generating /\ gpc \in {"loop", "processCurrentLine", "done"} =>
    /\ WalkBlocks(BlockTemplate, LinesTaken).nested
    /\ OpenTypes = OpenBranches(WalkBlocks(BlockTemplate, LinesTaken).stack)

\* The scaffold a directive line is compiled to; the conditions of the
\* templates are plain text.
ScaffoldOf(line) ==
  IF LineKind(line) = "if" THEN <<"i", "f", " ", "(">> \o SubSeq(line, 5, Len(line)) \o <<")", " ", "{", "\n">>
  ELSE IF LineKind(line) = "elif" THEN <<"}", " ", "e", "l", "s", "e", " ", "i", "f", " ", "(">> \o SubSeq(line, 7, Len(line)) \o <<")", " ", "{", "\n">>
  ELSE IF LineKind(line) = "else" THEN <<"}", " ", "e", "l", "s", "e", " ", "{", "\n">>
  ELSE IF LineKind(line) = "endif" THEN <<"}", "\n">>
  ELSE <<>>

\* The scaffolds of the first n lines, in order.
RECURSIVE Scaffolding(_, _)
Scaffolding(lines, n) ==
  IF n = 0 THEN <<>> ELSE Scaffolding(lines, n - 1) \o ScaffoldOf(lines[n])

\* The raw text of a list of segments, in order.
RECURSIVE RawText(_)
RawText(segments) ==
  IF segments = <<>> THEN <<>>
  ELSE (IF segments[1].type = "raw" THEN segments[1].content ELSE <<>>)
       \o RawText(Tail(segments))

\* The number of occurrences of ch among the first k characters of text.
CountBefore(text, k, ch) == Cardinality({j \in 1..k : text[j] = ch})

\* No closing brace of text lacks an opening one before it, and none stays
\* open.
BraceBalanced(text) ==
  /\ \A k \in 1..Len(text) : CountBefore(text, k, "}") <= CountBefore(text, k, "{")
  /\ CountBefore(text, Len(text), "}") = CountBefore(text, Len(text), "{")

\* A template that compiles has no block open at its end, and its generated
\* code holds the scaffolds of its directives in order, properly nested and
\* brace-balanced.
CompiledWellNested ==
  Generating /\ gpc = "done" =>
    /\ WalkBlocks(BlockTemplate, Len(BlockTemplate)).stack = <<>>
    /\ RawText(generatorState.result) = Scaffolding(BlockTemplate, Len(BlockTemplate))
    /\ BraceBalanced(RawText(generatorState.result))
    /\ BraceBalanced(generateResult.code)

\* The top of the stack of the generator is a branch that may be followed by
\* another one.
BranchOpen ==
  /\ Len(generatorState.preprocessIfStack) > 0
  /\ generatorState.preprocessIfStack[Len(generatorState.preprocessIfStack)].type \in {"if", "elif"}

\* generate fails at the line with the given message.
RejectedWith(message) ==
  /\ gpc' = "failed"
  /\ generateError'.operation = "code-generation-failed"
  /\ generateError'.message = message
  /\ generateError'.lineNumber = local.i + 1

\* The steps that take a directive line: it is rejected where no block or no
\* branch stands open for it and, when taken, changes the innermost block
\* alone.
DirectiveStep ==
  /\ BeforeLine({"elif"}) /\ ~BranchOpen => RejectedWith("#elif mismatch")
  /\ BeforeLine({"else"}) /\ ~BranchOpen => RejectedWith("#else mismatch")
  /\ BeforeLine({"endif"}) /\ Len(generatorState.preprocessIfStack) = 0 =>
       RejectedWith("#endif mismatch")
  /\ BeforeLine({"elif", "else"}) /\ gpc' # "failed" =>
       /\ BranchOpen
       /\ generatorState'.preprocessIfStack =
            [generatorState.preprocessIfStack EXCEPT
               ![Len(generatorState.preprocessIfStack)] =
                  IfEntry(LineKind(CurrentLine), @.initialParenthesesState,
                          @.initialBracketState, local.currentParenthesesState,
                          local.currentBracketState)]
  /\ BeforeLine({"endif"}) /\ gpc' # "failed" =>
       /\ Len(generatorState.preprocessIfStack) > 0
       /\ generatorState'.preprocessIfStack =
            SubSeq(generatorState.preprocessIfStack, 1,
                   Len(generatorState.preprocessIfStack) - 1)
  /\ BeforeLine({"if"}) /\ gpc' # "failed" =>
       generatorState'.preprocessIfStack =
         Append(generatorState.preprocessIfStack,
                IfEntry("if", local.currentParenthesesState, local.currentBracketState,
                        NullState, NullState))

\* The step after the last line: a block still open makes generate fail.
LastStep ==
  /\ gpc = "loop"
  /\ local.i = Len(generatorState.pass1)
  /\ Len(generatorState.preprocessIfStack) > 0
  => /\ gpc' = "failed"
     /\ generateError'.message = "Unclosed preprocessor directive"

\* C18: over any sequence of directive lines, #elif and #else are taken only
\* when the latest branch of the innermost open block is #if or #elif, #endif
\* is taken only when a block is open and closes the innermost one, and a
\* block still open after the last line makes generate fail; the scaffolding
\* of a template that compiles is properly nested and brace-balanced.
C18_BlockStructure ==
  /\ [](TakenWellNested /\ CompiledWellNested)
  /\ [][DirectiveStep /\ LastStep]_vars

\* A template with a block inside a branch of another has compiled.
C18_Witness ==
  /\ gpc = "done"
  /\ BlockTemplate = NestedExample
  /\ RawText(generatorState.result) = Scaffolding(NestedExample, Len(NestedExample))

(***************************************************************************)
(* The condition of an #if or #elif.                                       *)
(***************************************************************************)
\* processCurrentLine is at work on the condition of a directive.
InCondition == gpc = "processCurrentLine" /\ local.directive # ""

\* The while loop of processCurrentLine has no token left to take.
NoTokenLeft ==
  ~(/\ local.currentColumn < Len(CurrentLine)
    /\ NextMatch(Context, CurrentLine).found)

\* While a condition is scanned, the counter is the parenthesis depth of the
\* part of the condition scanned, from zero, and the depth around the
\* directive is set aside.
ConditionCounter ==
  Generating /\ InCondition =>
    /\ local.currentParenthesesState = DepthScanned
    /\ local.currentColumn = Len(local.directive) + 1 => local.currentParenthesesState = 0
    /\ local.cachedParenthesesState = WalkBlocks(BlockTemplate, local.i + 1).depth
    /\ local.currentBracketState = 0

\* Between lines the generator stands where the text outside the conditions
\* puts it, with no call open.
ConditionLeavesNoTrace ==
  Generating /\ gpc \in {"loop", "done"} =>
    /\ BlocksAgree(WalkBlocks(BlockTemplate, local.i))
    /\ generatorState.currentFunctionCall = <<>>

\* The step that ends a condition: it fails unless the parentheses of the
\* condition are balanced, and otherwise gives back the depth set aside and
\* leaves the bracket depth, the call stack and the open blocks alone.
ConditionEnd ==
  InCondition /\ NoTokenLeft =>
    /\ DepthScanned # 0 =>
         /\ gpc' = "failed"
         /\ generateError'.message = "Unmatched parentheses in preprocessor expression"
         /\ generateError'.lineNumber = local.i + 1
    /\ gpc' # "failed" =>
         /\ DepthScanned = 0
         /\ local'.currentParenthesesState = local.cachedParenthesesState
         /\ local'.currentBracketState = local.currentBracketState
         /\ generatorState'.currentFunctionCall = <<>>
         /\ generatorState'.preprocessIfStack = generatorState.preprocessIfStack

\* C19: the condition of an #if or #elif is scanned with a parenthesis counter
\* that starts at zero and must end at zero, unbalanced parentheses in the
\* condition being an error, and the scan leaves the parenthesis depth around
\* the directive, the call stack and the bracket depth as they were.
C19_ConditionIsolated ==
  /\ [](ConditionCounter /\ ConditionLeavesNoTrace)
  /\ [][ConditionEnd]_vars

\* The condition (x) has been scanned inside an open parenthesis, and the
\* depth is 1 again.
C19_Witness ==
  /\ gpc = "loop"
  /\ BlockTemplate = <<ParamX, UseGetElementAt, <<"(">>, IfHead \o <<"(", "x", ")">>, EndifLine>>
  /\ local.i = 4
  /\ local.currentParenthesesState = 1

\* The condition of the template, the line that holds it and the head of
\* that line.
ConditionLine == IF LineKind(BlockTemplate[Len(BlockTemplate) - 1]) = "text"
                 THEN Len(BlockTemplate) - 2 ELSE Len(BlockTemplate) - 1

ConditionHead == IF LineKind(BlockTemplate[ConditionLine]) = "if" THEN IfHead ELSE ElifHead

Condition ==
  SubSeq(BlockTemplate[ConditionLine], Len(ConditionHead) + 1, Len(BlockTemplate[ConditionLine]))

\* A call of the registered function getElementAt starts at position k of text.
CallAt(text, k) ==
  /\ k + Len(GetElementAtCall) - 1 <= Len(text)
  /\ SubSeq(text, k, k + Len(GetElementAtCall) - 1) = GetElementAtCall
  /\ (k = 1 \/ ~IsWordChar(text[k - 1]))

HasCall(text) == \E k \in 1..Len(text) : CallAt(text, k)

\* A word of a condition as target code: the parameter x through the
\* accessor of the parameters, any other word as it stands.
WordCode(word) == IF word = <<"x">> THEN <<"p", "a", "r", "a", "m", "[", "\"", "x", "\"", "]">> ELSE word

\* text[k..] as target code, word being the word that ends before position k.
RECURSIVE ConditionCode(_, _, _)
ConditionCode(text, k, word) ==
  IF k > Len(text) THEN WordCode(word)
  ELSE IF IsWordChar(text[k]) THEN ConditionCode(text, k + 1, Append(word, text[k]))
  ELSE WordCode(word) \o <<text[k]>> \o ConditionCode(text, k + 1, <<>>)

\* The generated code of one line of the templates.
LineCode(line) ==
  IF LineKind(line) = "if"
  THEN <<"i", "f", " ", "(">> \o ConditionCode(line, Len(IfHead) + 1, <<>>) \o <<")", " ", "{", "\n">>
  ELSE IF LineKind(line) = "elif"
  THEN <<"}", " ", "e", "l", "s", "e", " ", "i", "f", " ", "(">> \o ConditionCode(line, Len(ElifHead) + 1, <<>>) \o <<")", " ", "{", "\n">>
  ELSE IF LineKind(line) = "endif" THEN <<"}", "\n">>
  ELSE IF line[1] = "#" THEN <<>>
  ELSE <<"e", "m", "i", "t", "(">> \o JsonString(line \o <<"\n">>) \o <<")", ";", "\n">>

\* The generated code of the first n lines.
RECURSIVE TemplateCode(_, _)
TemplateCode(lines, n) ==
  IF n = 0 THEN <<>> ELSE TemplateCode(lines, n - 1) \o LineCode(lines[n])

\* The generated code of the directives among the first n lines.
RECURSIVE ScaffoldCode(_, _)
ScaffoldCode(lines, n) ==
  IF n = 0 THEN <<>>
  ELSE ScaffoldCode(lines, n - 1)
       \o (IF LineKind(lines[n]) = "text" THEN <<>> ELSE LineCode(lines[n]))

\* The text of the segments that are not raw, in order.
RECURSIVE EmittedText(_)
EmittedText(segments) ==
  IF segments = <<>> THEN <<>>
  ELSE (IF segments[1].type # "raw" THEN segments[1].content ELSE <<>>)
       \o EmittedText(Tail(segments))

\* The text the lines before the condition emit.
TextBefore == IF ConditionLine > 3 /\ LineKind(BlockTemplate[3]) = "text"
              THEN BlockTemplate[3] \o <<"\n">> ELSE <<>>

TemplateLines == repo[KeyNames[1]]

OutputLines == pass1Repo[KeyNames[1]]

\* The raw line is a #define directive.
IsDefineLine(line) == StartsWith(line, DefineWord \o <<" ">>)

\* part occurs in text.
Occurs(part, text) ==
  \E k \in 1..(Len(text) - Len(part) + 1) : SubSeq(text, k, k + Len(part) - 1) = part

\* What the lines n.. of the output emit when the #define lines emit nothing:
\* each other line its text, after its comment when lines are traced.
RECURSIVE CodeWithoutDefines(_)
CodeWithoutDefines(n) ==
  IF n > Len(OutputLines) THEN <<>>
  ELSE (IF IsDefineLine(TemplateLines[n]) THEN <<>>
        ELSE (IF options.preserveCodeReference
              THEN <<"/", "/", " ">> \o NumString(n) \o <<" ", "|", " ">> \o TemplateLines[n] \o <<"\n">>
              ELSE <<>>)
             \o <<"e", "m", "i", "t", "(">> \o JsonString(OutputLines[n].line \o <<"\n">>) \o <<")", ";", "\n">>)
       \o CodeWithoutDefines(n + 1)

\* C11: a #define line is removed from the output: after the macro pass no
\* output line holds the text of a #define directive, the macro pass neither
\* adds nor reorders lines, and the directive emits nothing in the generated
\* code.
C11_DefineEmitsNothing ==
  /\ pc = "done" =>
       /\ Len(OutputLines) = Len(TemplateLines)
       /\ \A n \in 1..Len(OutputLines) :
            /\ OutputLines[n].codeReference = [filePath |-> KeyNames[1], lineNumber |-> n]
            /\ \A m \in 1..Len(TemplateLines) :
                 IsDefineLine(TemplateLines[m]) => ~Occurs(TemplateLines[m], OutputLines[n].line)
  /\ Generating /\ gpc = "done" => generateResult.code = CodeWithoutDefines(1)

\* The part of C11 about the macro pass alone.
DefineLineCleared ==
  pc = "done" =>
    /\ Len(OutputLines) = Len(TemplateLines)
    /\ \A n \in 1..Len(OutputLines) :
         /\ OutputLines[n].codeReference = [filePath |-> KeyNames[1], lineNumber |-> n]
         /\ IsDefineLine(TemplateLines[n]) => OutputLines[n].line = <<>>
         /\ \A m \in 1..Len(TemplateLines) :
              IsDefineLine(TemplateLines[m]) => ~Occurs(TemplateLines[m], OutputLines[n].line)

(***************************************************************************)
(* Conditional directives and open calls.                                  *)
(***************************************************************************)
\* The number of lines equal to line among the first n lines.
LinesEqual(lines, n, line) == Cardinality({k \in 1..n : lines[k] = line})

\* The calls the first n lines of the text leave open.
CallsLeftOpen(lines, n) ==
  LinesEqual(lines, n, OpenCallLine) - LinesEqual(lines, n, CloseCallLine)

\* Between lines, the call stack holds the calls the text has left open.
CallStackOfText ==
  Generating /\ gpc = "loop" =>
    Len(generatorState.currentFunctionCall) = CallsLeftOpen(BlockTemplate, local.i)

\* The step on a conditional directive while a call is open.
DirectiveInOpenCall ==
  /\ BeforeLine({"if", "elif", "else", "endif"})
  /\ Len(generatorState.currentFunctionCall) > 0
  => /\ gpc' = "failed"
     /\ generateError'.operation = "code-generation-failed"
     /\ generateError'.lineNumber = local.i + 1
     /\ generatorState'.preprocessIfStack = generatorState.preprocessIfStack
     /\ generatorState'.currentFunctionCall = generatorState.currentFunctionCall

\* C21: an #if, #elif, #else or #endif line reached while a call opened on an
\* earlier line is still open makes generate fail with a generation error,
\* and the directive leaves the conditional stack as it was.
C21_DirectiveInsideCallRejected ==
  /\ [](CallStackOfText)
  /\ [][DirectiveInOpenCall]_vars

\* #endif has been rejected inside a call that was opened in the block.
C21_Witness ==
  /\ gpc = "failed"
  /\ BlockTemplate = <<UseGetElementAt, IfP, OpenCallLine, EndifLine>>
  /\ generateError.message = "Preprocessor directive inside function call"
  /\ generateError.lineNumber = 4
  /\ Len(generatorState.preprocessIfStack) = 1

(***************************************************************************)
(* The maps of the parameters and variables a template refers to.          *)
(***************************************************************************)
\* The number of references to the word name in the lines from the third on.
RECURSIVE References(_, _, _)
References(lines, n, name) ==
  IF n < 3 THEN 0
  ELSE References(lines, n - 1, name)
       + Cardinality({p \in 1..Len(lines[n]) : WordAt(lines[n], name, p)})

\* The map with one entry, or none.
MapOf(present, key, value) == IF present THEN (key :> value) ELSE <<>>

\* A map is exactly {key: value}.
IsSingleton(map, key, value) == DOMAIN map = {key} /\ map[key] = value

\* C22 as stated: for a template that declares #param N and uses obj.rank,
\* .rank being enabled, params is exactly {N: int} and variables is exactly
\* {obj: shader-variable}, however many times N and obj are referred to.
C22_DiscoveryMaps ==
  Generating /\ gpc = "done" /\ References(BlockTemplate, Len(BlockTemplate), <<"o", "b", "j">>) > 0 =>
    /\ IsSingleton(generateResult.params, <<"N">>, "int")
    /\ IsSingleton(generateResult.variables, <<"o", "b", "j">>, "shader-variable")

\* C22, amended: params is {N: int} when the text refers to N once or more
\* and empty when it never does, though N is declared; variables is
\* {obj: shader-variable} when the text uses obj.rank once or more and empty
\* otherwise; no other name is in either map.
C22_DiscoveryMapsOfReferences ==
  Generating /\ gpc = "done" =>
    /\ generateResult.params =
         MapOf(References(BlockTemplate, Len(BlockTemplate), <<"N">>) > 0, <<"N">>, "int")
    /\ generateResult.variables =
         MapOf(References(BlockTemplate, Len(BlockTemplate), <<"o", "b", "j">>) > 0,
               <<"o", "b", "j">>, "shader-variable")

\* A template that refers twice to N and twice to obj has compiled.
C22_Witness ==
  /\ gpc = "done"
  /\ References(BlockTemplate, Len(BlockTemplate), <<"N">>) = 2
  /\ References(BlockTemplate, Len(BlockTemplate), <<"o", "b", "j">>) = 2
  /\ IsSingleton(generateResult.params, <<"N">>, "int")
  /\ IsSingleton(generateResult.variables, <<"o", "b", "j">>, "shader-variable")

(***************************************************************************)
(* Declarations of parameters, read from the text of the template.         *)
(***************************************************************************)
\* The line is a #param directive.
IsParamLine(line) == StartsWith(line, ParamHead)

\* names, and after them the words of words that are not yet among them.
RECURSIVE AddNames(_, _)
AddNames(names, words) ==
  IF words = <<>> THEN names
  ELSE AddNames(IF \E k \in 1..Len(names) : names[k] = words[1]
                THEN names ELSE Append(names, words[1]),
                Tail(words))

\* The names the first n lines declare, each once, in the order of their
\* first declaration.
RECURSIVE DeclaredNames(_, _)
DeclaredNames(lines, n) ==
  IF n = 0 THEN <<>>
  ELSE IF IsParamLine(lines[n])
  THEN AddNames(DeclaredNames(lines, n - 1), DirectiveWords(lines[n], 7))
  ELSE DeclaredNames(lines, n - 1)

\* The code of a line of text that is one word, the names declared before it
\* being given.
WordLineCode(word, names) ==
  IF \E k \in 1..Len(names) : names[k] = word
  THEN <<"e", "m", "i", "t", "(", "p", "a", "r", "a", "m", "[">> \o JsonString(word) \o <<"]", ")", ";", "\n", "e", "m", "i", "t", "(", "\"", "\\", "n", "\"", ")", ";", "\n">>
  ELSE <<"e", "m", "i", "t", "(">> \o JsonString(word \o <<"\n">>) \o <<")", ";", "\n">>

\* The code of the first n lines.
RECURSIVE DeclarationsCode(_, _)
DeclarationsCode(lines, n) ==
  IF n = 0 THEN <<>>
  ELSE DeclarationsCode(lines, n - 1)
       \o (IF IsParamLine(lines[n]) THEN <<>>
           ELSE WordLineCode(lines[n], DeclaredNames(lines, n - 1)))

\* Declaring a name again changes nothing: the patterns are the built-in ones
\* and one pattern for each name declared, in the order of the first
\* declarations; the code is that of the text with each name declared once;
\* every parameter recorded has the default type.
RedeclarationIsNoOp ==
  /\ Generating /\ gpc \in {"loop", "done"} =>
       /\ generatorState.patterns =
            DEFAULT_PATTERNS
            \o [k \in 1..Len(DeclaredNames(BlockTemplate, local.i)) |->
                  createParamPattern(DeclaredNames(BlockTemplate, local.i)[k])]
       /\ \A name \in DOMAIN generatorState.usedParams :
            generatorState.usedParams[name] = "int"
  /\ Generating /\ gpc = "done" =>
       generateResult.code = DeclarationsCode(BlockTemplate, Len(BlockTemplate))

\* The line at which generate has failed declares, with a type, a name that
\* an earlier line has declared.
TypedRedeclaration ==
  /\ gpc = "failed"
  /\ IsParamLine(CurrentLine)
  /\ \E k \in 1..Len(DirectiveWords(CurrentLine, 7)) :
       /\ Len(DirectiveWords(CurrentLine, 7)[k]) > 1
       /\ DirectiveWords(CurrentLine, 7)[k][2] = ":"
       /\ \E j \in 1..Len(DeclaredNames(BlockTemplate, local.i)) :
            DeclaredNames(BlockTemplate, local.i)[j] = <<DirectiveWords(CurrentLine, 7)[k][1]>>

MarkerLines == {n \in 1..Len(BlockTemplate) : Occurs(MainMarker, BlockTemplate[n])}

\* Where the marker of line n starts.
MarkerAt(n) ==
  CHOOSE k \in 1..Len(BlockTemplate[n]) :
    SubSeq(BlockTemplate[n], k, k + Len(MainMarker) - 1) = MainMarker

\* The text of the lines from up to n - 1 that are no directives, and of
\* line n up to its character last.
RECURSIVE TextFrom(_, _, _)
TextFrom(from, n, last) ==
  IF from >= n THEN SubSeq(BlockTemplate[n], 1, last)
  ELSE (IF LineKind(BlockTemplate[from]) = "text" /\ BlockTemplate[from][1] # "#"
        THEN BlockTemplate[from] ELSE <<>>)
       \o TextFrom(from + 1, n, last)

\* How many more ch than closing are in text.
Depth(text, ch, closing) ==
  CountBefore(text, Len(text), ch) - CountBefore(text, Len(text), closing)

\* The marker of line n stands in a condition, or after a parenthesis (of a
\* call or not) or a brace that is still open.
MarkerEnclosed(n) ==
  \/ LineKind(BlockTemplate[n]) \in {"if", "elif"}
  \/ Depth(TextFrom(1, n, MarkerAt(n) - 1), "(", ")") > 0
  \/ Depth(TextFrom(1, n, MarkerAt(n) - 1), "{", "}") > 0

\* C24: a template opens at most one main-function block; a second $MAIN
\* marker, or a $MAIN marker inside an open call, inside parentheses, inside
\* brackets or inside an #if or #elif condition, makes generate fail.
C24_SingleMainFunction ==
  Generating /\ gpc = "done" =>
    /\ Cardinality(MarkerLines) <= 1
    /\ \A n \in MarkerLines : ~MarkerEnclosed(n)

\* Line n opens a main-function block and the brace at the end of line m
\* brings the depth back to where the block opened.
MainBlock(n, m) ==
  /\ n \in MarkerLines /\ ~MarkerEnclosed(n) /\ n < m /\ m <= Len(BlockTemplate)
  /\ BlockTemplate[m] = <<"}">>
  /\ Depth(SubSeq(TextFrom(n, m, 1), MarkerAt(n), Len(TextFrom(n, m, 1))), "{", "}") = 0
  /\ \A k \in (n + 1)..(m - 1) :
       Depth(SubSeq(TextFrom(n, k, Len(BlockTemplate[k])), MarkerAt(n),
                    Len(TextFrom(n, k, Len(BlockTemplate[k])))), "{", "}") > 0

MainClosed == \E n, m \in 1..Len(BlockTemplate) : MainBlock(n, m)

\* C25: hasMainFunction is true exactly when the template held a $MAIN block
\* that was opened and then closed by the brace that brings the depth back to
\* where the block opened; it is false without a marker; a block opened and
\* never closed makes generate fail.
C25_HasMainFunction ==
  Generating /\ gpc = "done" =>
    /\ generateResult.hasMainFunction <=> MainClosed
    /\ MarkerLines = {} => ~generateResult.hasMainFunction
    /\ MarkerLines # {} => MainClosed

(***************************************************************************)
(* Blank lines, read from the text of the template.                        *)
(***************************************************************************)
\* Line n is empty and emits a newline: it is not the last line, and the line
\* before it is a line of text that is not empty.
BlankKept(lines, n) ==
  /\ lines[n] = <<>> /\ 1 < n /\ n < Len(lines)
  /\ lines[n - 1] # <<>> /\ lines[n - 1][1] # "#"

\* The code of the first n lines: a line of text emits its text and an empty
\* line that is kept emits a newline.
RECURSIVE CollapsedCode(_, _)
CollapsedCode(lines, n) ==
  IF n = 0 THEN <<>>
  ELSE CollapsedCode(lines, n - 1)
       \o (IF lines[n] = <<>>
           THEN (IF BlankKept(lines, n) THEN <<"e", "m", "i", "t", "(", "\"", "\\", "n", "\"", ")", ";", "\n">> ELSE <<>>)
           ELSE LineCode(lines[n]))

\* C26: a run of consecutive blank lines emits one newline, and none when it
\* starts the template or follows a directive line; a blank line that is the
\* last line emits none; every line that is not blank emits its text.
C26_BlankLinesCollapse ==
  Generating /\ gpc = "done" =>
    generateResult.code = CollapsedCode(BlockTemplate, Len(BlockTemplate))

\* generate has returned for a template that starts with a blank line and has
\* two blank lines after a line of text and before another.
C26_Witness ==
  /\ Generating /\ gpc = "done"
  /\ \E n \in 2..(Len(BlockTemplate) - 2) :
       /\ BlankKept(BlockTemplate, n)
       /\ BlockTemplate[n + 1] = <<>> /\ BlockTemplate[n + 2] = <<"a">>
  /\ BlockTemplate[1] = <<>>

(***************************************************************************)
(* Source tracing, read from the stream of the template and the raw lines  *)
(* of the repository.                                                      *)
(***************************************************************************)
\* The stream of the template generate runs on, and its lines.
Stream == generatorState.pass1

StreamLines == [k \in 1..Len(Stream) |-> Stream[k].line]

\* The comment of a line: the number, right-aligned to the width of the
\* number of lines of the stream, and the raw text of the line the k-th line
\* of the stream comes from.
TraceComment(number, k) ==
  <<"/", "/", " ">> \o PadStart(NumString(number), Len(NumString(Len(Stream)))) \o <<" ", "|", " ">>
  \o repo[Stream[k].codeReference.filePath][Stream[k].codeReference.lineNumber]
  \o <<"\n">>

\* What the k-th line of the stream emits after its comment.
StreamLineCode(k) ==
  IF Stream[k].line = <<>>
  THEN (IF BlankKept(StreamLines, k) THEN <<"e", "m", "i", "t", "(", "\"", "\\", "n", "\"", ")", ";", "\n">> ELSE <<>>)
  ELSE LineCode(Stream[k].line)

\* The code of the first n lines of the stream, each after the comment that
\* carries the line number of its code reference.
RECURSIVE TracedByReference(_)
TracedByReference(n) ==
  IF n = 0 THEN <<>>
  ELSE TracedByReference(n - 1)
       \o TraceComment(Stream[n].codeReference.lineNumber, n) \o StreamLineCode(n)

\* The same, each comment carrying the position of the line in the stream.
RECURSIVE TracedByPosition(_)
TracedByPosition(n) ==
  IF n = 0 THEN <<>>
  ELSE TracedByPosition(n - 1) \o TraceComment(n, n) \o StreamLineCode(n)

\* C27: with preserveCodeReference, every line of the stream of the template
\* is preceded by one raw comment that carries the line number of its code
\* reference in the file it comes from, right-aligned, and the raw text of
\* that line -- also for the lines of included files.
C27_SourceTracing ==
  Generating /\ gpc = "done" => generateResult.code = TracedByReference(Len(Stream))

\* What the generator does: the number of the comment is the position in the
\* stream.
TracedStreamPosition ==
  Generating /\ gpc = "done" => generateResult.code = TracedByPosition(Len(Stream))

(***************************************************************************)
(* What a pass hands back, and what the text of a repository says about    *)
(* its templates.                                                          *)
(***************************************************************************)
\* The templates of the repository parse has returned; none when it has
\* thrown or not returned yet.
Normalized == IF pc = "done" THEN pass1Repo ELSE EmptyMap

\* The templates of the repository generateDirectory has returned.
Generated == IF dpc = "done" THEN directoryResult ELSE EmptyMap

\* A line of template from includes template to.
IncludesDirectly(from, to) ==
  \E n \in 1..Len(repo[from]) : repo[from][n] = IncludeLine(to)

\* from is to, or includes it, directly or through at most n other templates.
RECURSIVE Reaches(_, _, _)
Reaches(from, to, n) ==
  \/ from = to
  \/ /\ n > 0
     /\ \E via \in DOMAIN repo : IncludesDirectly(from, via) /\ Reaches(via, to, n - 1)

\* template includes other, directly or not, or is it.
DependsOn(template, other) == Reaches(template, other, Cardinality(DOMAIN repo))

\* No line of the template, or of a template it includes, is one that fails.
ErrorFree(template) ==
  \A other \in DOMAIN repo :
    DependsOn(template, other) =>
      \A n \in 1..Len(repo[other]) : repo[other][n] \notin FaultyLines

\* parse has thrown for one template: the templates that are free of errors
\* and do not include it are normalized all the same.
ParseIsolated ==
  pc = "failed" =>
    \A template \in DOMAIN repo :
      ErrorFree(template) /\ ~DependsOn(template, error.filePath)
        => template \in DOMAIN Normalized

\* The same for generateDirectory.
DirectoryIsolated ==
  dpc = "failed" =>
    \A template \in DOMAIN repo :
      ErrorFree(template) /\ ~DependsOn(template, generateError.filePath)
        => template \in DOMAIN Generated

\* A template has a complete result or none: the result of a generate that has
\* thrown is in no Map, and each entry is what a generate has returned.
CompleteOrNone ==
  /\ gpc = "failed" => order[dIdx] \notin DOMAIN directoryResult
  /\ gpc = "done" /\ dpc = "generate" => generateResult.code = CodeEmit(generatorState.result)
  /\ \A template \in DOMAIN directoryResult :
       /\ directoryResult[template].filePath = template
       /\ ErrorFree(template)

\* C28: an error raised for one template ends the compile of that template
\* only -- every other template of the repository that does not include it,
\* directly or not, is still normalized and generated -- and a template has
\* a complete result or none.
C28_ErrorIsolation == ParseIsolated /\ DirectoryIsolated /\ CompleteOrNone

(***************************************************************************)
(* The normalized lines of a template as a function of its raw lines and   *)
(* of those of the templates it includes.                                  *)
(***************************************************************************)
\* The macro loop over the lines n.. of stream, macros being the table so far.
RECURSIVE MacroFold(_, _, _, _)
MacroFold(stream, table, n, key) ==
  IF n > Len(stream) \/ MacroLineOutcome(table, key, n - 1, stream[n].line).kind = "throw"
  THEN <<>>
  ELSE <<[line |-> MacroLineOutcome(table, key, n - 1, stream[n].line).line,
          codeReference |-> stream[n].codeReference]>>
       \o MacroFold(stream, MacroLineOutcome(table, key, n - 1, stream[n].line).macros,
                    n + 1, key)

\* The normalized lines of key: the macro loop, from an empty table, over the
\* include expansion of key.
NormalOf(key) == MacroFold(Expansion(key), <<>>, 1, key)

\* The lines of a stream.
LinesOf(stream) == [k \in 1..Len(stream) |-> stream[k].line]

\* C29: in a repository free of errors the normalized lines of a template,
\* and so the result of its generation, depend on its raw lines and on those
\* of the templates it includes only: they are the same in every iteration
\* order of the repository, whether other templates include it or were
\* processed before it, and no macro of a template it does not include
\* reaches it.
C29_TemplateIndependence ==
  /\ pc = "done" => \A key \in Keys : pass1Repo[key] = NormalOf(key)
  /\ Generating /\ gpc = "done" =>
       generateResult.code =
         CollapsedCode(LinesOf(NormalOf(generatorState.filePath)),
                       Len(NormalOf(generatorState.filePath)))

\* The template other holds a #define of X, and template, which it does not
\* include and which does not include it, holds X.
DefinesFor(other, template) ==
  /\ \E n \in 1..Len(repo[other]) : repo[other][n] = OrderDefine
  /\ \E n \in 1..Len(repo[template]) : repo[template][n] = <<"X">>
  /\ ~DependsOn(template, other) /\ ~DependsOn(other, template)

\* parse has returned and generate too, for a template that holds X, is
\* included by another, and comes in the order after a template that defines
\* X and that it does not include; the order is not that of the names.
C29_Witness ==
  /\ pc = "done" /\ Generating /\ gpc = "done"
  /\ order[1] # KeyNames[1]
  /\ \E other \in Keys :
       /\ DefinesFor(other, generatorState.filePath)
       /\ \E i, j \in 1..Len(order) :
            i < j /\ order[i] = other /\ order[j] = generatorState.filePath
  /\ \E third \in Keys : IncludesDirectly(third, generatorState.filePath)

(***************************************************************************)
(* The repositories the passes are given and those they return.            *)
(***************************************************************************)
\* The repository parse has returned has the basePath and the keys of the one
\* it was given, and so has the one generateDirectory has returned.
SameBaseAndKeys ==
  /\ pc = "done" =>
       /\ ParseReturn.basePath = basePath
       /\ DOMAIN ParseReturn.templates = DOMAIN repo
  /\ dpc = "done" =>
       /\ DirectoryReturn.basePath = ParseReturn.basePath
       /\ DOMAIN DirectoryReturn.templates = DOMAIN ParseReturn.templates

\* A step leaves the repository parse was given as it is and, once parse has
\* returned, the repository it has returned, which generateDirectory is given.
InputKept ==
  /\ basePath' = basePath
  /\ repo' = repo
  /\ order' = order
  /\ pc = "done" => pass1Repo' = pass1Repo /\ pc' = "done"

\* C30: parse and generateDirectory each return a repository with the
\* basePath and exactly the template keys of their input, and leave every raw
\* line, parsed line and code reference of their input unchanged, also when
\* they fail.
C30_InputNotMutated == []SameBaseAndKeys /\ [][InputKept]_vars

\* generateDirectory has returned for a repository of two templates whose
\* basePath is the second one.
C30_Witness ==
  /\ dpc = "done" /\ Cardinality(DOMAIN repo) = 2
  /\ basePath = BasePaths[2]
  /\ DOMAIN directoryResult = {KeyNames[1], KeyNames[2]}

(***************************************************************************)
(* Where an error points, against the code reference of the line that      *)
(* caused it.                                                              *)
(***************************************************************************)
\* The file path and line number an error carries.
LocationOf(e) == [filePath |-> e.filePath, lineNumber |-> e.lineNumber]

\* The resolver has thrown at an #include directive: the error names that
\* line of the raw template.
ResolverErrorAtDirective ==
  (FailedResolving /\ error.lineNumber > 0) =>
    /\ error.filePath \in Keys
    /\ error.lineNumber <= Len(repo[error.filePath])
    /\ IncludeMatches(RawLine(error.filePath, error.lineNumber).line)

\* The macro pass has thrown at a line of the stream: the error names the
\* code reference of that line.
MacroErrorAtReference ==
  (FailedExpanding /\ macroLine < Len(pass1Repo[order[idx]])) =>
    LocationOf(error) = pass1Repo[order[idx]][macroLine + 1].codeReference

\* generate has thrown at a line of the stream: the error names the code
\* reference of that line.
GenerateErrorAtReference ==
  (Generating /\ gpc = "failed" /\ generateError.lineNumber > 0) =>
    LocationOf(generateError) = generatorState.pass1[local.currentLine + 1].codeReference

\* C31: an error of normalization or of generation that concerns a line
\* reports the file path and the 1-based line number of the physical line
\* that caused it, its code reference, also when that line was spliced in
\* from an included file.
C31_ErrorLocation ==
  ResolverErrorAtDirective /\ MacroErrorAtReference /\ GenerateErrorAtReference

(***************************************************************************)
(* The pattern list, read from the directives of the template.             *)
(***************************************************************************)
\* The line is a #use directive.
IsUseLine(line) == StartsWith(line, <<"#", "u", "s", "e", " ">>)

\* The patterns of the names of a #use directive, in order.
RECURSIVE UsePatterns(_)
UsePatterns(words) ==
  IF words = <<>> THEN <<>> ELSE lookupPattern(words[1]) \o UsePatterns(Tail(words))

\* patterns, and after them one pattern for each of words that has none yet.
RECURSIVE WithParams(_, _)
WithParams(patterns, words) ==
  IF words = <<>> THEN patterns
  ELSE WithParams(IF \E k \in 1..Len(patterns) : patterns[k] = createParamPattern(words[1])
                  THEN patterns ELSE Append(patterns, createParamPattern(words[1])),
                  Tail(words))

\* The patterns after the first n lines: the built-in ones, then those of the
\* directives in the order of the lines and of the names on each line.
RECURSIVE RegisteredAfter(_, _)
RegisteredAfter(lines, n) ==
  IF n = 0 THEN DEFAULT_PATTERNS
  ELSE IF IsUseLine(lines[n])
  THEN RegisteredAfter(lines, n - 1) \o UsePatterns(DirectiveWords(lines[n], 5))
  ELSE IF IsParamLine(lines[n])
  THEN WithParams(RegisteredAfter(lines, n - 1), DirectiveWords(lines[n], 7))
  ELSE RegisteredAfter(lines, n - 1)

\* short is the start of long.
IsPrefix(short, long) ==
  Len(short) <= Len(long) /\ SubSeq(long, 1, Len(short)) = short

\* The names that a line of text refers to after a line that declares them.
ReferredParams(lines) ==
  {lines[n] : n \in {m \in 1..Len(lines) :
                       /\ ~IsUseLine(lines[m]) /\ ~IsParamLine(lines[m])
                       /\ \E k \in 1..Len(DeclaredNames(lines, m - 1)) :
                            DeclaredNames(lines, m - 1)[k] = lines[m]}}

\* The code of the first n lines: a directive emits nothing, a word declared
\* before its line is a parameter, any other word is literal text.
RECURSIVE RegistrationCode(_, _)
RegistrationCode(lines, n) ==
  IF n = 0 THEN <<>>
  ELSE RegistrationCode(lines, n - 1)
       \o (IF lines[n][1] = "#" THEN <<>>
           ELSE WordLineCode(lines[n], DeclaredNames(lines, n - 1)))

\* The list is that of the directives of the lines done, and the code and the
\* parameters of the result are those of the names declared before their use.
PatternsOfDirectives ==
  /\ Generating /\ gpc \in {"loop", "done"} =>
       generatorState.patterns = RegisteredAfter(BlockTemplate, local.i)
  /\ Generating /\ gpc = "processCurrentLine" =>
       generatorState.patterns = RegisteredAfter(BlockTemplate, local.i + 1)
  /\ Generating /\ gpc = "done" =>
       /\ generateResult.code = RegistrationCode(BlockTemplate, Len(BlockTemplate))
       /\ DOMAIN generateResult.params = ReferredParams(BlockTemplate)

\* A step of generate keeps the patterns it has, in their order, at the start
\* of the list.
PatternsOnlyGrow ==
  Generating => IsPrefix(generatorState.patterns, generatorState'.patterns)

\* C32: the pattern list starts with the built-in patterns and only grows:
\* each #use and #param appends its patterns in the order of the directives
\* and of their names, none is removed or moved, and a pattern is in effect
\* for the lines after its directive only -- a name on a line before its
\* #param is literal text and is not recorded as a parameter.
C32_RegistrationOrder == []PatternsOfDirectives /\ [][PatternsOnlyGrow]_vars

\* generate has returned for a template whose first line is the word N, which
\* a later line declares and a line after that uses, and which has a #use line.
C32_Witness ==
  /\ Generating /\ gpc = "done"
  /\ BlockTemplate[1] = <<"N">>
  /\ \E n, m \in 2..Len(BlockTemplate) :
       n < m /\ BlockTemplate[n] = ParamN /\ BlockTemplate[m] = <<"N">>
  /\ \E n \in 1..Len(BlockTemplate) : BlockTemplate[n] = UseRankGetElementAt

(***************************************************************************)
(* Termination of parse.                                                   *)
(***************************************************************************)
\* parse has returned or thrown.
ParseEnded == pc \in {"done", "failed"}

\* The include stack holds templates of the repository, each once, so that
\* it is no deeper than the repository has templates.
StackBounded ==
  /\ Len(includeStack) <= Cardinality(Keys)
  /\ NoDuplicates(includeStack)
  /\ Len(frames) <= Len(includeStack)

\* C33: parse ends, with a result or with an error, for every repository,
\* also one whose templates include themselves, each other, or each other
\* through a third; the include recursion is never deeper than the number of
\* templates, a path on the include stack being rejected, not entered again.
C33_ParseTerminates == <>ParseEnded /\ []StackBounded

\* parse has thrown at a cycle through all three templates, with as many
\* paths on the include stack as there are templates.
C33_Witness ==
  /\ pc = "failed" /\ error.operation = "include-circular"
  /\ Len(includeStack) = Cardinality(Keys) /\ Cardinality(Keys) = Len(KeyNames)


(***************************************************************************)
(* C36                                                                     *)
(***************************************************************************)
\* generate runs and has thrown nothing.
RunningWithoutError == gpc \notin {"idle", "failed"} /\ generateError = NoError

\* The depths recorded by the open calls grow from the bottom of
\* currentFunctionCall to its top.
FramesIncreasing ==
  \A j \in 1..Len(Calls), k \in 1..Len(Calls) :
    j < k => Calls[j].parenthesesState < Calls[k].parenthesesState

\* The depth is not negative and lies above the depth recorded by the
\* innermost open call.
DepthAboveFrames ==
  /\ local.currentParenthesesState >= 0
  /\ FramesIncreasing
  /\ Calls # <<>> => local.currentParenthesesState > Calls[Len(Calls)].parenthesesState

\* The depths recorded by the open calls, from the bottom to the top.
RecordedDepths(calls) == [k \in 1..Len(calls) |-> calls[k].parenthesesState]

\* The innermost call is closed and the calls below it stay open.
InnermostClosed ==
  /\ Calls # <<>>
  /\ RecordedDepths(Calls') = SubSeq(RecordedDepths(Calls), 1, Len(Calls) - 1)

\* A ) that is taken without an error closes the innermost call exactly
\* when it brings the depth back to the depth that call recorded, and the
\* number of open calls goes down at no other step.
ClosedAtRecordedDepth ==
  /\ AtToken(<<")">>) /\ gpc' # "failed" =>
       /\ local'.currentParenthesesState = local.currentParenthesesState - 1
       /\ InnermostClosed <=>
            /\ Calls # <<>>
            /\ local'.currentParenthesesState = Calls[Len(Calls)].parenthesesState
       /\ ~InnermostClosed => RecordedDepths(Calls') = RecordedDepths(Calls)
  /\ RunningWithoutError /\ gpc' \notin {"idle", "failed"} /\ Len(Calls') < Len(Calls) =>
       AtToken(<<")">>)

\* C36: in every state of generate that is not an error state the
\* parenthesis depth is not negative, the depths recorded by the open calls
\* grow strictly from the bottom to the top of the call stack and the depth
\* is strictly greater than the depth recorded by the innermost open call; a
\* ) closes the innermost call exactly when the depth returns to the depth
\* that call recorded.
C36_CallStackDepth ==
  /\ [](RunningWithoutError => DepthAboveFrames)
  /\ [][ClosedAtRecordedDepth]_vars

\* Two calls are open in the condition of a directive that was met at depth
\* 1: the depth was set back to 0 for the condition, the outer call recorded
\* 0 and the inner call 1.
C36_Witness ==
  /\ RunningWithoutError
  /\ local.cachedParenthesesState = 1
  /\ Len(Calls) = 2
  /\ Calls[1].parenthesesState = 0
  /\ Calls[2].parenthesesState = 1
  /\ local.currentParenthesesState = 2


(***************************************************************************)
(* C37                                                                     *)
(***************************************************************************)
\* No value of the macro table holds the name of its own macro or of a macro
\* set before it (the table is in the order of the definitions).
StoredValuesExpanded ==
  \A j \in 1..Len(macros), k \in 1..Len(macros) :
    j <= k => ~ContainsWord(macros[k].value, macros[j].name)

\* No line that came out of the macro pass holds the name of a macro that a
\* line before it defined.
OutputLinesExpanded ==
  \A n \in 1..Len(processedLines) :
    \A d \in Defines(MacroStream, n - 1) :
      ~ContainsWord(processedLines[n].line, DefinedName(MacroStream, d))

\* The values written in the #define lines taken so far hold no dollar sign.
NoDollarValues ==
  \A d \in Defines(MacroStream, macroLine) : ~Occurs(<<"$">>, DefinedValue(MacroStream, d))

\* C37: while the macro pass runs and when it has ended, every value of the
\* macro table is free of the name of its own macro and of the names of the
\* macros defined before it, and every line put out is free of the names of
\* the macros defined on the lines before it.
C37_FullyExpanded ==
  pc = "expanding" => StoredValuesExpanded /\ OutputLinesExpanded

\* The same for templates whose macro values hold no dollar sign.
FullyExpandedWithoutDollar ==
  (pc = "expanding" /\ NoDollarValues) => StoredValuesExpanded /\ OutputLinesExpanded


(***************************************************************************)
(* C38                                                                     *)
(***************************************************************************)
\* The fragments of the condition collected so far.
ConditionFragments == local.currentPreProcessorExpression

\* The comma about to be taken ends an argument of the innermost open call
\* and text of that argument has been scanned.
EndsWrittenArgument ==
  /\ AtToken(<<",">>)
  /\ local.currentParenthesesState = Calls[Len(Calls)].parenthesesState + 1
  /\ NextMatch(Context, CurrentLine).index > 0

\* A step of the scan of a condition in which a call is open: the text of
\* the arguments goes to the call, so that a comma after written text is
\* accepted, the fragments of the condition stay as they are while a call
\* stays open, and the step that closes the outermost call adds the
\* rendered call, one fragment, to the condition.
CollectedInCall ==
  (InCondition /\ Calls # <<>>) =>
    /\ EndsWrittenArgument => gpc' # "failed"
    /\ (gpc' # "failed" /\ Calls' # <<>>) => ConditionFragments' = ConditionFragments
    /\ (gpc' = "processCurrentLine" /\ Calls' = <<>>) =>
         /\ Len(ConditionFragments') = Len(ConditionFragments) + 1
         /\ SubSeq(ConditionFragments', 1, Len(ConditionFragments)) = ConditionFragments

\* C38: a call of a registered function in the condition of an #if or #elif
\* is handled as a call elsewhere: the fragments of its arguments are
\* collected in the argument list of the call and rendered with the call,
\* none of them is put into the condition directly, and a condition such as
\* getElementAt(a, b) is accepted.
C38_CallsInConditions == [][CollectedInCall]_vars

\* The comma of getElementAt(a, ... in a condition is refused.
CommaInConditionRefused ==
  /\ InCondition /\ Calls # <<>> /\ EndsWrittenArgument
  /\ Calls[Len(Calls)].currentParam = <<>>


(***************************************************************************)
(* C39                                                                     *)
(***************************************************************************)
\* generateImpl run to its end from context c with the option
\* preserveCodeReference as given: the turns LoopLine, ProcessToken and
\* ProcessLineEnd take, one after the other.
RECURSIVE RunImpl(_, _)
RunImpl(c, preserveCodeReference) ==
  IF c.error # NoError THEN c
  ELSE IF c.pc = "loop"
  THEN IF c.l.i < Len(c.s.pass1)
       THEN RunImpl(BeginLine(c, preserveCodeReference, repo), preserveCodeReference)
       ELSE c
  ELSE LET line == c.s.pass1[c.l.i + 1].line
       IN  IF c.l.currentColumn < Len(line) /\ NextMatch(c, line).found
           THEN RunImpl(ProcessMatch(c, line), preserveCodeReference)
           ELSE RunImpl(EndLine(c), preserveCodeReference)

\* The end of generateImpl on the template generate was called with, the
\* option disabled.
WithoutReference ==
  LET s == NewGeneratorState(generatorState.filePath, generatorState.pass1)
  IN  RunImpl([s |-> s, l |-> NewLocals(s), error |-> NoError, pc |-> "loop"], FALSE)

\* generate succeeds with the option disabled.
SucceedsWithoutReference ==
  WithoutReference.error = NoError /\ EndOfStreamError(WithoutReference.s) = NoError

\* A comment of preserveCodeReference.
IsReferenceComment(segment) ==
  segment.type = "raw" /\ StartsWith(segment.content, <<"/", "/", " ">>)

\* The fragments without the comments of preserveCodeReference.
RECURSIVE WithoutComments(_)
WithoutComments(segments) ==
  IF segments = <<>> THEN <<>>
  ELSE IF IsReferenceComment(segments[1]) THEN WithoutComments(Tail(segments))
  ELSE <<segments[1]>> \o WithoutComments(Tail(segments))

\* generateImpl has returned to generate, which has yet to check the state
\* and to merge the fragments.
ImplReturned == gpc = "loop" /\ local.i = Len(generatorState.pass1)

\* The run that has returned and the run with the option disabled have the
\* same outcome but for the comments.
SameButComments ==
  /\ WithoutReference.error = NoError
  /\ EndOfStreamError(generatorState) = EndOfStreamError(WithoutReference.s)
  /\ generatorState.usedParams = WithoutReference.s.usedParams
  /\ generatorState.usedVariables = WithoutReference.s.usedVariables
  /\ generatorState.mainFunction = WithoutReference.s.mainFunction
  /\ WithoutComments(generatorState.result) = WithoutReference.s.result

\* C39: with preserveCodeReference enabled generate succeeds exactly when
\* it succeeds with the option disabled, calls whose arguments span several
\* lines included; the params, the variables and hasMainFunction are the
\* same, and the fragments differ by the added raw comments only.
C39_TracingAdditive ==
  /\ (Generating /\ gpc = "failed") => ~SucceedsWithoutReference
  /\ ImplReturned => SameButComments

\* A run with the option enabled that returns from generateImpl has the
\* outcome of the run with the option disabled.
AdditiveWhenReturned == ImplReturned => SameButComments


(***************************************************************************)
(* C34                                                                     *)
(***************************************************************************)
\* The timers whose function has been called.
Fired == {invoked[k] : k \in 1..Len(invoked)}

\* The calls of debounce made so far, by the number of their timer.
Scheduled == 1..nextTimer

\* At most one timer is set, the one the Debouncer holds; every call of
\* debounce is pending, fired or cleared and only one of these; no function
\* has been called twice; isPending() says whether some scheduled call has
\* neither fired nor been cleared.
OneTimerPending ==
  /\ Cardinality(timers) <= 1
  /\ timers = IF isPending THEN {timeoutId} ELSE {}
  /\ Fired \cap cleared = {}
  /\ timers \cap (Fired \cup cleared) = {}
  /\ Scheduled = timers \cup Fired \cup cleared
  /\ \A j \in 1..Len(invoked), k \in 1..Len(invoked) : invoked[j] = invoked[k] => j = k
  /\ isPending <=> \E t \in Scheduled : t \notin Fired /\ t \notin cleared

\* A call of debounce or of cancel while a timer is pending clears that
\* timer, a cleared timer stays cleared, and a function that is called is
\* the function of the last call of debounce.
LastCallRuns ==
  /\ (isPending /\ timeoutId' # timeoutId /\ invoked' = invoked) => timeoutId \in cleared'
  /\ cleared \subseteq cleared'
  /\ invoked' # invoked => isPending /\ timeoutId = nextTimer /\ invoked' = Append(invoked, timeoutId)

\* C34: at any time at most one timer is pending; a call of debounce made
\* while the timer of the previous call is pending keeps the function of the
\* previous call from ever running, and only the function of the last call
\* of a burst runs, once; after cancel() no pending function runs;
\* isPending() is true exactly while a scheduled call has neither fired nor
\* been cancelled.
C34_DebouncerCoalesces == []OneTimerPending /\ [][LastCallRuns]_vars

\* A burst of three calls, of which the third ran; a fourth call that was
\* cancelled; a fifth that is pending.
C34_Witness ==
  /\ cleared = {1, 2, 4}
  /\ invoked = <<3>>
  /\ timeoutId = 5
  /\ isPending


(***************************************************************************)
(* C35                                                                     *)
(***************************************************************************)
\* At most one call of build has not settled, and isBuilding says whether
\* there is one.
OneBuildRunning ==
  /\ running \in {0, 1}
  /\ isBuilding <=> running = 1

\* A call of runBuild made while a build runs starts none, and the step at
\* which a build settles clears isBuilding, however the build ended.
GuardedAndCleared ==
  /\ (isBuilding /\ invoked' # invoked) =>
       running' = running /\ built' = built /\ isBuilding'
  /\ running' < running => ~isBuilding' /\ outcome' \in {"success", "failure", "throw"}
  /\ running' > running => ~isBuilding /\ running = 0

\* C35: whatever the order of the file changes, the expirations of the timer
\* and the ends of the builds, at most one build runs at a time; a call of
\* runBuild that arrives while a build runs returns without starting one,
\* and isBuilding is cleared when the running build ends, be it with a
\* success status, a failure status or an exception.
C35_NoConcurrentBuilds == []OneBuildRunning /\ [][GuardedAndCleared]_vars

\* A build that started after a first build had thrown is still running,
\* a change was seen after it started and the timer of that change has
\* expired: its call of runBuild has returned without a build.
C35_Witness ==
  /\ wpc = "watching"
  /\ outcome = "throw"
  /\ isBuilding /\ running = 1
  /\ built = 1 /\ changes = 2
  /\ invoked = <<1, 2>>
  /\ timers = {}


(***************************************************************************)
(* C40                                                                     *)
(***************************************************************************)
\* The c-th change the watcher has seen is followed by the start of a build,
\* or the watcher is stopped.
FollowedByBuild(c) == changes >= c ~> (built >= c \/ wpc = "stopped")

\* C40: every change of a template file the watcher has seen, also one seen
\* while a build runs, is in the end followed by a build that starts after
\* the change, as long as the watcher is not stopped.
C40_NoLostChange == \A c \in 1..MaxChanges : FollowedByBuild(c)

\* Nothing is pending and nothing runs, the watcher watches, and the last
\* change it has seen came after the start of the last build.
ChangeLost ==
  /\ wpc = "watching"
  /\ ~isPending /\ timers = {}
  /\ ~isBuilding /\ running = 0
  /\ built < changes

\* A change seen while no build runs is followed by a build unless another
\* change or a build that started meanwhile comes in between: the timer of
\* a change that expires while no build runs starts a build.
BuildsWhenIdle ==
  (invoked' # invoked /\ ~isBuilding) => built' = changes /\ isBuilding'

IdleChangeBuilt == [][BuildsWhenIdle]_vars

====
